---- MODULE Spec2Model ----
(***************************************************************************)
(* Model of the IP stack core of nmstate (rust/src/lib/ip.rs) and of the   *)
(* DNS placement entry point (rust/src/lib/nm/dns.rs).                     *)
(*                                                                         *)
(* Option<T> is modelled as a sequence of length 0 (None) or 1 (Some(x)).  *)
(* Vec<T> is a sequence.  Strings that the code only compares are TLA+     *)
(* strings; strings that the code parses (IPv6 token, DNS server) are      *)
(* sequences of lexical pieces or of characters.                           *)
(***************************************************************************)
EXTENDS Integers, Sequences, FiniteSets, TLC

VARIABLES
    pc,          \* position of the modelled run
    is_desired,  \* the is_desired argument of sanitize
    stack0,      \* the stack as handed to the first sanitize call
    stack,       \* the stack being sanitized (&mut self)
    trace,       \* what each sanitize call left behind and returned
    ret,         \* result of the last call: "Ok" or an ErrorKind
    desired,     \* desired view of the interface
    current,     \* current view of the interface
    for_apply,   \* for_apply view
    for_verify,  \* for_verify view
    dns,         \* merged_state.dns and what the trigger reads
    merged_state,\* the MergedNetworkState handed to the DNS placement
    nm_acs,      \* NmActiveConnection list of the backend
    nm_devs      \* NmDevice list of the backend

vars == <<pc, is_desired, stack0, stack, trace, ret,
          desired, current, for_apply, for_verify, dns,
          merged_state, nm_acs, nm_devs>>

\* value of a variable that a specification does not use
Unused == "-"

----------------------------------------------------------------------------
(* Bounds of the model *)

\* longest address list drawn for a stack
MaxAddrs == 2

\* number of sanitize calls made on one stack
MaxSanitizeCalls == 2

\* longest address list a desired stack gives before it is merged
MaxDesiredAddrs == 1

\* longest DNS server list
MaxServers == 4

----------------------------------------------------------------------------
(* Option and Vec helpers *)

None == <<>>
Some(x) == <<x>>
IsSome(o) == Len(o) = 1
IsNone(o) == Len(o) = 0
Unwrap(o) == o[1]

\* sequences over S of length at most n
SeqsUpTo(S, n) == UNION {[1..k -> S] : k \in 0..n}

----------------------------------------------------------------------------
(* Program constants *)

IPV4_ADDR_LEN == 32
IPV6_ADDR_LEN == 128
FOREVER == "forever"

----------------------------------------------------------------------------
(* std::net::IpAddr: V4 keeps its four octets, V6 its eight segments *)

V4(a, b, c, d) == [v |-> 4, parts |-> <<a, b, c, d>>]
V6(segs) == [v |-> 6, parts |-> segs]
is_ipv4(ip) == ip.v = 4
is_ipv6(ip) == ip.v = 6

\* x & 0xffc0 for a 16 bit x: the low six bits cleared
AndFFC0(x) == x - (x % 64)

is_ipv6_unicast_link_local(ip) == AndFFC0(ip.parts[1]) = 65152  \* 0xfe80

InterfaceIpAddr(ip, prefix, flags, valid, preferred) ==
    [ip |-> ip, prefix_length |-> prefix, mptcp_flags |-> flags,
     valid_life_time |-> valid, preferred_life_time |-> preferred]

InterfaceIpAddr_is_auto(a) ==
    /\ IsSome(a.valid_life_time)
    /\ a.valid_life_time # Some(FOREVER)

is_ip_addrs_none_or_all_auto(addrs) ==
    IF IsNone(addrs) THEN TRUE
    ELSE \A i \in 1..Len(Unwrap(addrs)) :
            LET a == Unwrap(addrs)[i] IN
            IF is_ipv6(a.ip)
            THEN is_ipv6_unicast_link_local(a.ip) \/ InterfaceIpAddr_is_auto(a)
            ELSE InterfaceIpAddr_is_auto(a)

\* a.valid_life_time = None; a.preferred_life_time = None on every entry
ClearLifetimes(addrs) ==
    [i \in 1..Len(addrs) |->
        [addrs[i] EXCEPT !.valid_life_time = None, !.preferred_life_time = None]]

\* addr.mptcp_flags = None on every entry
ClearMptcpFlags(addrs) ==
    [i \in 1..Len(addrs) |-> [addrs[i] EXCEPT !.mptcp_flags = None]]

----------------------------------------------------------------------------
(* InterfaceIpv4 *)

InterfaceIpv4_is_auto(s) == s.enabled /\ s.dhcp = Some(TRUE)

InterfaceIpv4_is_static(s) ==
    /\ s.enabled
    /\ ~InterfaceIpv4_is_auto(s)
    /\ IsSome(s.addresses) /\ Unwrap(s.addresses) # <<>>

\* None becomes Some(true)
DefaultTrue(o) == IF IsNone(o) THEN Some(TRUE) ELSE o

\* the same without the empty address list rule
Ipv4AutoDefaultsNoCollapse(s) ==
    IF InterfaceIpv4_is_auto(s)
    THEN [s EXCEPT !.auto_dns = DefaultTrue(@),
                   !.auto_routes = DefaultTrue(@),
                   !.auto_gateway = DefaultTrue(@)]
    ELSE s

\* ip.rs 297-326: dynamic defaults, else empty address list means disabled
Ipv4AutoDefaultsOrCollapse(s) ==
    IF InterfaceIpv4_is_auto(s)
    THEN [s EXCEPT !.auto_dns = DefaultTrue(@),
                   !.auto_routes = DefaultTrue(@),
                   !.auto_gateway = DefaultTrue(@)]
    ELSE IF s.addresses = Some(<<>>) /\ s.enabled
         THEN [s EXCEPT !.enabled = FALSE]
         ELSE s

\* ip.rs 333-356: the checks made on a desired address list
Ipv4DesiredAddrsValid(addrs) ==
    /\ \A i \in 1..Len(addrs) : ~is_ipv6(addrs[i].ip)
    /\ \A i \in 1..Len(addrs) : ~(addrs[i].prefix_length > IPV4_ADDR_LEN)

NotAutoAddr(a) == ~InterfaceIpAddr_is_auto(a)

\* the same without retain: lifetimes cleared, nothing dropped
ClearLifetimesKeepAll(s) ==
    IF IsSome(s.addresses)
    THEN [s EXCEPT !.addresses = Some(ClearLifetimes(Unwrap(s.addresses)))]
    ELSE s

\* ip.rs 358-362: drop auto addresses, clear the lifetimes of the rest
PurgeAutoAddrs(s) ==
    IF IsSome(s.addresses)
    THEN [s EXCEPT !.addresses =
            Some(ClearLifetimes(SelectSeq(Unwrap(s.addresses), NotAutoAddr)))]
    ELSE s

\* ip.rs 365-368
Ipv4DisabledClears(s) ==
    IF ~s.enabled THEN [s EXCEPT !.dhcp = None, !.addresses = None] ELSE s

\* ip.rs 370-385
Ipv4NonDhcpClears(s) ==
    IF s.dhcp # Some(TRUE)
    THEN [s EXCEPT !.auto_dns = None, !.auto_gateway = None,
                   !.auto_routes = None, !.auto_table_id = None,
                   !.auto_route_metric = None, !.dhcp_client_id = None,
                   !.dhcp_send_hostname = None, !.dhcp_custom_hostname = None]
    ELSE s

\* ip.rs 386-401 (v4) and 751-766 (v6)
HostnameConsistency(s) ==
    IF s.dhcp_send_hostname = Some(FALSE)
    THEN [s EXCEPT !.dhcp_custom_hostname = None]
    ELSE s

\* ip.rs 402-406 (v4) and 729-733 (v6)
StripMptcpFlags(s) ==
    IF IsSome(s.addresses)
    THEN [s EXCEPT !.addresses = Some(ClearMptcpFlags(Unwrap(s.addresses)))]
    ELSE s

\* InterfaceIpv4::sanitize: the stack as left behind and the result
InterfaceIpv4_sanitize(s, desired_flag) ==
    LET s1 == Ipv4AutoDefaultsOrCollapse(s) IN
    IF /\ IsSome(s1.addresses) /\ desired_flag
       /\ ~Ipv4DesiredAddrsValid(Unwrap(s1.addresses))
    THEN [ip |-> s1, ret |-> "InvalidArgument"]
    ELSE [ip |-> StripMptcpFlags(HostnameConsistency(Ipv4NonDhcpClears(
                    Ipv4DisabledClears(PurgeAutoAddrs(s1))))),
          ret |-> "Ok"]

----------------------------------------------------------------------------
(* Text of an IPv6 address, as a sequence of lexical pieces: a ':' , a     *)
(* group of hex digits (its value), or a trailing dotted quad.             *)

Colon == [k |-> "colon"]
Hex(n) == [k |-> "hex", v |-> n]
Quad(a, b, c, d) == [k |-> "quad", v |-> <<a, b, c, d>>]

SubSeqFrom(s, i) == SubSeq(s, i, Len(s))

\* positions i with s[i] = ':' and s[i+1] = ':'
GapPositions(s) ==
    {i \in 1..(Len(s) - 1) : s[i] = Colon /\ s[i + 1] = Colon}

FirstGap(s) == CHOOSE i \in GapPositions(s) : \A j \in GapPositions(s) : i <= j

\* group (':' group)* , a dotted quad only where allowed and only last
GroupsWellFormed(s, quad_ok) ==
    /\ Len(s) % 2 = 1
    /\ \A i \in 1..Len(s) :
          IF i % 2 = 0 THEN s[i] = Colon
          ELSE \/ s[i].k = "hex"
               \/ s[i].k = "quad" /\ quad_ok /\ i = Len(s)

\* the 16 bit segments a well formed group list denotes
RECURSIVE GroupSegments(_)
GroupSegments(s) ==
    IF s = <<>> THEN <<>>
    ELSE LET here == IF s[1].k = "quad"
                     THEN <<s[1].v[1] * 256 + s[1].v[2],
                            s[1].v[3] * 256 + s[1].v[4]>>
                     ELSE <<s[1].v>>
         IN  here \o (IF Len(s) >= 3 THEN GroupSegments(SubSeqFrom(s, 3))
                      ELSE <<>>)

Zeros(n) == [i \in 1..n |-> 0]

\* std::net::Ipv6Addr::from_str: Some(segments) or None
Ipv6Addr_from_str(s) ==
    IF GapPositions(s) = {}
    THEN IF GroupsWellFormed(s, TRUE) /\ Len(GroupSegments(s)) = 8
         THEN Some(GroupSegments(s)) ELSE None
    ELSE LET g == FirstGap(s)
             head == SubSeq(s, 1, g - 1)
             tail == SubSeqFrom(s, g + 2)
             headOk == head = <<>> \/ GroupsWellFormed(head, FALSE)
             tailOk == tail = <<>> \/ GroupsWellFormed(tail, TRUE)
         IN  IF headOk /\ tailOk
                /\ Len(GroupSegments(head)) + Len(GroupSegments(tail)) <= 7
             THEN Some(GroupSegments(head)
                       \o Zeros(8 - Len(GroupSegments(head))
                                  - Len(GroupSegments(tail)))
                       \o GroupSegments(tail))
             ELSE None

\* hex groups joined by ':'
RECURSIVE JoinGroups(_)
JoinGroups(segs) ==
    IF segs = <<>> THEN <<>>
    ELSE IF Len(segs) = 1 THEN <<Hex(segs[1])>>
    ELSE <<Hex(segs[1]), Colon>> \o JoinGroups(Tail(segs))

\* length of the run of zero segments starting at i
RECURSIVE ZeroRun(_, _)
ZeroRun(segs, i) ==
    IF i > Len(segs) \/ segs[i] # 0 THEN 0 ELSE 1 + ZeroRun(segs, i + 1)

\* std::net::Ipv6Addr Display: "::ffff:a.b.c.d" for IPv4-mapped, else the
\* first longest run of two or more zero segments is written "::"
Ipv6Addr_to_string(segs) ==
    IF (\A i \in 1..5 : segs[i] = 0) /\ segs[6] = 65535
    THEN <<Colon, Colon, Hex(65535), Colon,
           Quad(segs[7] \div 256, segs[7] % 256, segs[8] \div 256, segs[8] % 256)>>
    ELSE LET longest == CHOOSE i \in 1..8 :
                 /\ \A j \in 1..8 : ZeroRun(segs, j) <= ZeroRun(segs, i)
                 /\ \A j \in 1..(i - 1) : ZeroRun(segs, j) < ZeroRun(segs, i)
             n == ZeroRun(segs, longest)
         IN  IF n > 1
             THEN JoinGroups(SubSeq(segs, 1, longest - 1))
                  \o <<Colon, Colon>>
                  \o JoinGroups(SubSeqFrom(segs, longest + n))
             ELSE JoinGroups(segs)

\* sanitize_ipv6_token_to_string: the token as left behind and the result
sanitize_ipv6_token_to_string(token) ==
    IF token = <<>> THEN [token |-> <<Colon, Colon>>, ret |-> "Ok"]
    ELSE LET ip == Ipv6Addr_from_str(token) IN
         IF IsNone(ip) THEN [token |-> token, ret |-> "InvalidArgument"]
         ELSE IF \E i \in 1..4 : Unwrap(ip)[i] # 0
         THEN [token |-> token, ret |-> "InvalidArgument"]
         ELSE LET new_ip == [Unwrap(ip) EXCEPT ![1] = 8193, ![2] = 3512]
                  \* "2001:db8" is the first three pieces of the text
              IN  [token |-> SubSeqFrom(Ipv6Addr_to_string(new_ip), 4),
                   ret |-> "Ok"]

----------------------------------------------------------------------------
(* InterfaceIpv6 *)

InterfaceIpv6_is_auto(s) ==
    s.enabled /\ (s.dhcp = Some(TRUE) \/ s.autoconf = Some(TRUE))

InterfaceIpv6_is_static(s) ==
    /\ s.enabled
    /\ ~InterfaceIpv6_is_auto(s)
    /\ IsSome(s.addresses) /\ Unwrap(s.addresses) # <<>>

\* ip.rs 640-661: the checks made on a desired address list
Ipv6DesiredAddrsValid(addrs) ==
    /\ \A i \in 1..Len(addrs) : ~is_ipv4(addrs[i].ip)
    /\ \A i \in 1..Len(addrs) : ~(addrs[i].prefix_length > IPV6_ADDR_LEN)

\* ip.rs 670-691
Ipv6AutoDefaults(s) ==
    IF InterfaceIpv6_is_auto(s)
    THEN [s EXCEPT !.auto_dns = DefaultTrue(@),
                   !.auto_routes = DefaultTrue(@),
                   !.auto_gateway = DefaultTrue(@)]
    ELSE s

\* the closure of retain at ip.rs 694-711
KeepIpv6NonLinkLocal(a) ==
    IF is_ipv6(a.ip) THEN ~is_ipv6_unicast_link_local(a.ip) ELSE FALSE

\* ip.rs 693-712
Ipv6DropLinkLocal(s) ==
    IF IsSome(s.addresses)
    THEN [s EXCEPT !.addresses =
            Some(SelectSeq(Unwrap(s.addresses), KeepIpv6NonLinkLocal))]
    ELSE s

\* the IPv4 clears applied to an IPv6 stack: autoconf is left alone
Ipv6DisabledClearsKeepAutoconf(s) ==
    IF ~s.enabled THEN [s EXCEPT !.dhcp = None, !.addresses = None] ELSE s

\* ip.rs 714-718
Ipv6DisabledClears(s) ==
    IF ~s.enabled
    THEN [s EXCEPT !.dhcp = None, !.autoconf = None, !.addresses = None]
    ELSE s

\* ip.rs 720-728
Ipv6NonAutoClears(s) ==
    IF ~InterfaceIpv6_is_auto(s)
    THEN [s EXCEPT !.auto_dns = None, !.auto_gateway = None,
                   !.auto_routes = None, !.auto_table_id = None,
                   !.auto_route_metric = None,
                   !.dhcp_send_hostname = None, !.dhcp_custom_hostname = None]
    ELSE s

\* ip.rs 735-748: a desired token that cannot be applied
Ipv6TokenRefused(s, desired_flag) ==
    /\ desired_flag
    /\ s.autoconf = Some(FALSE)
    /\ ~(Unwrap(s.token) = <<>> \/ Unwrap(s.token) = <<Colon, Colon>>)

\* InterfaceIpv6::sanitize: the stack as left behind and the result
InterfaceIpv6_sanitize(s, desired_flag) ==
    IF /\ IsSome(s.addresses) /\ desired_flag
       /\ ~Ipv6DesiredAddrsValid(Unwrap(s.addresses))
    THEN [ip |-> s, ret |-> "InvalidArgument"]
    ELSE
    LET s5 == StripMptcpFlags(Ipv6NonAutoClears(Ipv6DisabledClears(
                  Ipv6DropLinkLocal(Ipv6AutoDefaults(PurgeAutoAddrs(s))))))
    IN  IF IsNone(s5.token)
        THEN [ip |-> HostnameConsistency(s5), ret |-> "Ok"]
        ELSE IF Ipv6TokenRefused(s5, desired_flag)
        THEN [ip |-> s5, ret |-> "InvalidArgument"]
        ELSE LET tk == sanitize_ipv6_token_to_string(Unwrap(s5.token)) IN
             IF tk.ret # "Ok"
             THEN [ip |-> s5, ret |-> tk.ret]
             ELSE [ip |-> HostnameConsistency(
                              [s5 EXCEPT !.token = Some(tk.token)]),
                   ret |-> "Ok"]

----------------------------------------------------------------------------
(* merge_ip and special_merge *)

\* the same inheriting whatever the user wrote
InheritEnabledAlways(self, props, cur) == [self EXCEPT !.enabled = cur.enabled]

\* ip.rs 236-238 and 797-799: enabled is inherited unless the user wrote it
InheritEnabled(self, props, cur) ==
    IF "enabled" \notin props THEN [self EXCEPT !.enabled = cur.enabled]
    ELSE self

\* ip.rs 246-250 and 810-814
DynamicToStaticApplies(self, cur, addrs, self_is_auto, cur_is_auto) ==
    /\ cur_is_auto
    /\ IsSome(cur.addresses)
    /\ self.enabled
    /\ ~self_is_auto
    /\ is_ip_addrs_none_or_all_auto(addrs)

\* the copy as special_merge makes it: lifetimes kept
CopyCurrentKeepLifetimes(self, cur) ==
    [self EXCEPT !.addresses = cur.addresses]

\* ip.rs 252-258 and 816-822: current.addresses.clone(), lifetimes cleared
CopyCurrentAsStatic(self, cur) ==
    [self EXCEPT !.addresses = Some(ClearLifetimes(Unwrap(cur.addresses)))]

InterfaceIpv4_merge_ip(self, cur) ==
    LET s1 == InheritEnabled(self, self.prop_list, cur)
        s2 == IF IsNone(s1.dhcp) /\ s1.enabled
              THEN [s1 EXCEPT !.dhcp = cur.dhcp] ELSE s1
    IN  IF DynamicToStaticApplies(s2, cur, s2.addresses,
                InterfaceIpv4_is_auto(s2), InterfaceIpv4_is_auto(cur))
        THEN CopyCurrentAsStatic(s2, cur)
        ELSE s2

InterfaceIpv6_merge_ip(self, cur) ==
    LET s1 == InheritEnabled(self, self.prop_list, cur)
        s2 == IF IsNone(s1.dhcp) /\ s1.enabled
              THEN [s1 EXCEPT !.dhcp = cur.dhcp] ELSE s1
        s3 == IF IsNone(s2.autoconf) /\ s2.enabled
              THEN [s2 EXCEPT !.autoconf = cur.autoconf] ELSE s2
    IN  IF DynamicToStaticApplies(s3, cur, s3.addresses,
                InterfaceIpv6_is_auto(s3), InterfaceIpv6_is_auto(cur))
        THEN CopyCurrentAsStatic(s3, cur)
        ELSE s3

\* InterfaceIpv4::special_merge; the result of the final sanitize is dropped
InterfaceIpv4_special_merge(self, des, cur) ==
    LET s1 == InheritEnabled(self, des.prop_list, cur)
        s2 == IF IsNone(des.dhcp) /\ s1.enabled
              THEN [s1 EXCEPT !.dhcp = cur.dhcp] ELSE s1
        s3 == IF DynamicToStaticApplies(s2, cur, s2.addresses,
                      InterfaceIpv4_is_auto(s2), InterfaceIpv4_is_auto(cur))
              THEN [s2 EXCEPT !.addresses = cur.addresses]
              ELSE s2
    IN  InterfaceIpv4_sanitize(s3, FALSE).ip

\* InterfaceIpv6::special_merge; the result of the final sanitize is dropped
InterfaceIpv6_special_merge(self, des, cur) ==
    LET s1 == InheritEnabled(self, des.prop_list, cur)
        s2 == IF IsNone(des.dhcp) /\ s1.enabled
              THEN [s1 EXCEPT !.dhcp = cur.dhcp] ELSE s1
        s3 == IF IsNone(des.autoconf) /\ s2.enabled
              THEN [s2 EXCEPT !.autoconf = cur.autoconf] ELSE s2
        s4 == IF DynamicToStaticApplies(s3, cur, des.addresses,
                      InterfaceIpv6_is_auto(s3), InterfaceIpv6_is_auto(cur))
              THEN [s3 EXCEPT !.addresses = cur.addresses]
              ELSE s3
    IN  InterfaceIpv6_sanitize(s4, FALSE).ip

----------------------------------------------------------------------------
(* BaseInterface, reduced to what the IP post-processing reads and writes *)

BaseInterface(ipv4, ipv6, wait_ip, can_have_ip) ==
    [ipv4 |-> ipv4, ipv6 |-> ipv6, wait_ip |-> wait_ip,
     can_have_ip |-> can_have_ip]

\* .map(|i| i.enabled).unwrap_or_default()
StackEnabled(o) == IF IsSome(o) THEN Unwrap(o).enabled ELSE FALSE

validate_wait_ip(base_iface) ==
    IF IsNone(base_iface.wait_ip) THEN "Ok"
    ELSE LET wait_ip == Unwrap(base_iface.wait_ip) IN
         IF wait_ip \in {"ipv4", "ipv4+ipv6"} /\ ~StackEnabled(base_iface.ipv4)
         THEN "InvalidArgument"
         ELSE IF wait_ip \in {"ipv6", "ipv4+ipv6"}
                 /\ ~StackEnabled(base_iface.ipv6)
         THEN "InvalidArgument"
         ELSE "Ok"

\* ip.rs 1427-1446 for one of the two views
MergeIpStacks(iface, cur) ==
    [iface EXCEPT
        !.ipv4 = IF IsSome(@) /\ IsSome(cur.ipv4)
                 THEN Some(InterfaceIpv4_merge_ip(Unwrap(@), Unwrap(cur.ipv4)))
                 ELSE @,
        !.ipv6 = IF IsSome(@) /\ IsSome(cur.ipv6)
                 THEN Some(InterfaceIpv6_merge_ip(Unwrap(@), Unwrap(cur.ipv6)))
                 ELSE @]

\* MergedInterface::post_inter_ifaces_process_ip on (current, for_apply,
\* for_verify): the two views as left behind and the result
post_inter_ifaces_process_ip(cur, apply_iface, verify_iface) ==
    IF IsNone(cur)
    THEN [for_apply |-> apply_iface, for_verify |-> verify_iface, ret |-> "Ok"]
    ELSE LET a == MergeIpStacks(apply_iface, Unwrap(cur))
             v == MergeIpStacks(verify_iface, Unwrap(cur))
         IN  IF validate_wait_ip(a) # "Ok"
             THEN [for_apply |-> a, for_verify |-> v,
                   ret |-> validate_wait_ip(a)]
             ELSE IF ~a.can_have_ip
             THEN [for_apply |-> [a EXCEPT !.wait_ip = None],
                   for_verify |-> [v EXCEPT !.wait_ip = None], ret |-> "Ok"]
             ELSE [for_apply |-> a, for_verify |-> v, ret |-> "Ok"]

----------------------------------------------------------------------------
(* The stacks and addresses the specifications draw their inputs from *)

OptBool == {None, Some(TRUE), Some(FALSE)}

Seg2001 == <<8193, 3512, 0, 0, 0, 0, 0>>

\* 192.0.2.5/24, static, with query-only MPTCP flags
Addr4Static ==
    InterfaceIpAddr(V4(192, 0, 2, 5), 24, Some(<<"signal">>), None, None)
\* 192.0.2.9/24 learned from DHCP
Addr4Auto ==
    InterfaceIpAddr(V4(192, 0, 2, 9), 24, None, Some("60sec"), Some("30sec"))
\* 192.0.2.7/24 as the kernel reports a static address
Addr4Forever ==
    InterfaceIpAddr(V4(192, 0, 2, 7), 24, None, Some(FOREVER), Some(FOREVER))
\* 192.0.2.8/33
Addr4BadPrefix == InterfaceIpAddr(V4(192, 0, 2, 8), 33, None, None, None)
\* 2001:db8::1/64 as the kernel reports a static address
Addr6Static ==
    InterfaceIpAddr(V6(Seg2001 \o <<1>>), 64, Some(<<"signal">>),
                    Some(FOREVER), Some(FOREVER))
\* 2001:db8::9/64 learned from a router advertisement
Addr6Auto ==
    InterfaceIpAddr(V6(Seg2001 \o <<9>>), 64, None, Some("60sec"), Some("30sec"))
\* febf::1/64, the last /16 of fe80::/10
Addr6LinkLocal ==
    InterfaceIpAddr(V6(<<65215, 0, 0, 0, 0, 0, 0, 1>>), 64, None, None, None)
\* 2001:db8::8/129
Addr6BadPrefix == InterfaceIpAddr(V6(Seg2001 \o <<8>>), 129, None, None, None)

Ipv4StackAddrs ==
    {Addr4Static, Addr4Auto, Addr4Forever, Addr4BadPrefix, Addr6Static}
Ipv6StackAddrs ==
    {Addr6Static, Addr6Auto, Addr6LinkLocal, Addr6BadPrefix, Addr4Static}

OptAddrs(universe) == {None} \cup {Some(l) : l \in SeqsUpTo(universe, MaxAddrs)}

\* values of the options that only matter to a dynamic stack
DhcpOpts == {
    [auto_dns |-> None, auto_gateway |-> None, auto_routes |-> None,
     auto_table_id |-> None, auto_route_metric |-> None, dhcp_id |-> None,
     dhcp_send_hostname |-> None, dhcp_custom_hostname |-> None],
    [auto_dns |-> Some(FALSE), auto_gateway |-> Some(TRUE),
     auto_routes |-> Some(FALSE), auto_table_id |-> Some(100),
     auto_route_metric |-> Some(150), dhcp_id |-> Some("ll"),
     dhcp_send_hostname |-> Some(TRUE), dhcp_custom_hostname |-> Some("host1")],
    [auto_dns |-> None, auto_gateway |-> None, auto_routes |-> Some(TRUE),
     auto_table_id |-> None, auto_route_metric |-> None, dhcp_id |-> None,
     dhcp_send_hostname |-> Some(FALSE), dhcp_custom_hostname |-> Some("host1")],
    [auto_dns |-> Some(TRUE), auto_gateway |-> None, auto_routes |-> None,
     auto_table_id |-> None, auto_route_metric |-> None, dhcp_id |-> None,
     dhcp_send_hostname |-> None, dhcp_custom_hostname |-> Some("host1")] }

\* the token texts "", "::0.0.250.193", "::1:0:0:0" and "1::1"
Tokens == {
    <<>>,
    <<Colon, Colon, Quad(0, 0, 250, 193)>>,
    <<Colon, Colon, Hex(1), Colon, Hex(0), Colon, Hex(0), Colon, Hex(0)>>,
    <<Hex(1), Colon, Colon, Hex(1)>> }

\* struct InterfaceIpv4
InterfaceIpv4(enabled, props, dhcp, addresses, o) ==
    [enabled |-> enabled, prop_list |-> props, dhcp |-> dhcp,
     dhcp_client_id |-> o.dhcp_id, addresses |-> addresses,
     auto_dns |-> o.auto_dns, auto_gateway |-> o.auto_gateway,
     auto_routes |-> o.auto_routes, auto_table_id |-> o.auto_table_id,
     allow_extra_address |-> TRUE, auto_route_metric |-> o.auto_route_metric,
     dhcp_send_hostname |-> o.dhcp_send_hostname,
     dhcp_custom_hostname |-> o.dhcp_custom_hostname,
     dns |-> None, rules |-> None]

\* struct InterfaceIpv6
InterfaceIpv6(enabled, props, dhcp, autoconf, addresses, token, o) ==
    [enabled |-> enabled, prop_list |-> props, dhcp |-> dhcp,
     dhcp_duid |-> o.dhcp_id, autoconf |-> autoconf, addr_gen_mode |-> None,
     addresses |-> addresses,
     auto_dns |-> o.auto_dns, auto_gateway |-> o.auto_gateway,
     auto_routes |-> o.auto_routes, auto_table_id |-> o.auto_table_id,
     allow_extra_address |-> TRUE, auto_route_metric |-> o.auto_route_metric,
     token |-> token,
     dhcp_send_hostname |-> o.dhcp_send_hostname,
     dhcp_custom_hostname |-> o.dhcp_custom_hostname,
     dns |-> None, rules |-> None]

Ipv4Inputs ==
    {InterfaceIpv4(e, {}, d, a, o) :
        e \in BOOLEAN, d \in OptBool, a \in OptAddrs(Ipv4StackAddrs),
        o \in DhcpOpts}

Ipv6Inputs ==
    {InterfaceIpv6(e, {}, d, c, a, k, o) :
        e \in BOOLEAN, d \in OptBool, c \in OptBool,
        a \in OptAddrs(Ipv6StackAddrs),
        k \in {None} \cup {Some(x) : x \in Tokens}, o \in DhcpOpts}

----------------------------------------------------------------------------
(* SpecSanitize: sanitize applied, and applied again, to one stack *)

InitSanitize ==
    /\ pc = "sanitize"
    /\ is_desired \in BOOLEAN
    /\ \/ stack0 \in {[fam |-> 4, ip |-> s] : s \in Ipv4Inputs}
       \/ stack0 \in {[fam |-> 6, ip |-> s] : s \in Ipv6Inputs}
    /\ stack = stack0
    /\ trace = <<>>
    /\ ret = Unused
    /\ desired = Unused /\ current = Unused
    /\ for_apply = Unused /\ for_verify = Unused /\ dns = Unused
    /\ merged_state = Unused /\ nm_acs = Unused /\ nm_devs = Unused

\* a caller that stops at the first error
CanSanitize ==
    /\ pc = "sanitize"
    /\ Len(trace) < MaxSanitizeCalls
    /\ (trace # <<>> => ret = "Ok")

SanitizeIpv4 ==
    /\ CanSanitize
    /\ stack.fam = 4
    /\ LET r == InterfaceIpv4_sanitize(stack.ip, is_desired) IN
       /\ stack' = [stack EXCEPT !.ip = r.ip]
       /\ ret' = r.ret
       /\ trace' = Append(trace, r)
    /\ UNCHANGED <<pc, is_desired, stack0, desired, current,
                   for_apply, for_verify, dns, merged_state, nm_acs, nm_devs>>

SanitizeIpv6 ==
    /\ CanSanitize
    /\ stack.fam = 6
    /\ LET r == InterfaceIpv6_sanitize(stack.ip, is_desired) IN
       /\ stack' = [stack EXCEPT !.ip = r.ip]
       /\ ret' = r.ret
       /\ trace' = Append(trace, r)
    /\ UNCHANGED <<pc, is_desired, stack0, desired, current,
                   for_apply, for_verify, dns, merged_state, nm_acs, nm_devs>>

NextSanitize == SanitizeIpv4 \/ SanitizeIpv6

SpecSanitize == InitSanitize /\ [][NextSanitize]_vars

----------------------------------------------------------------------------
(* Spec: one interface through sanitize of the desired view and            *)
(* post_inter_ifaces_process_ip                                            *)

NoOpts == CHOOSE o \in DhcpOpts : IsNone(o.auto_dns) /\ IsNone(o.auto_routes)

\* enabled and prop_list as Deserialize leaves them (ip.rs 418-449), and as
\* new() followed by `enabled = true` leaves them (ip.rs 131-132, 221)
EnabledAndProps ==
    {<<FALSE, {}>>, <<FALSE, {"enabled"}>>, <<TRUE, {"enabled"}>>,
     <<TRUE, {}>>}

DesiredAddrs(universe) ==
    {None} \cup {Some(l) : l \in SeqsUpTo(universe, MaxDesiredAddrs)}

DesiredIpv4 ==
    {InterfaceIpv4(ep[1], ep[2], d, a, NoOpts) :
        ep \in EnabledAndProps, d \in OptBool,
        a \in DesiredAddrs({Addr4Static, Addr4Auto})}

DesiredIpv6 ==
    {InterfaceIpv6(ep[1], ep[2], d, c, a, None, NoOpts) :
        ep \in EnabledAndProps, d \in OptBool, c \in OptBool,
        a \in DesiredAddrs({Addr6Static, Addr6LinkLocal})}

\* a stack as the query reports it: disabled, or enabled with dhcp and
\* autoconf known
CurrentIpv4 ==
    {InterfaceIpv4(FALSE, {}, None, None, NoOpts)} \cup
    {InterfaceIpv4(TRUE, {}, Some(d), a, NoOpts) :
        d \in BOOLEAN, a \in OptAddrs({Addr4Auto, Addr4Forever})}

CurrentIpv6 ==
    {InterfaceIpv6(FALSE, {}, None, None, None, None, NoOpts)} \cup
    {InterfaceIpv6(TRUE, {}, Some(d), Some(c), a, None, NoOpts) :
        d \in BOOLEAN, c \in BOOLEAN,
        a \in OptAddrs({Addr6Auto, Addr6LinkLocal})}

StaticIpv4 ==
    InterfaceIpv4(TRUE, {"enabled"}, Some(FALSE), Some(<<Addr4Forever>>), NoOpts)
StaticIpv6 ==
    InterfaceIpv6(TRUE, {"enabled"}, Some(FALSE), Some(FALSE),
                  Some(<<Addr6Static>>), None, NoOpts)

WaitIps == {None, Some("any"), Some("ipv4"), Some("ipv6"), Some("ipv4+ipv6")}

OptOf(S) == {None} \cup {Some(x) : x \in S}

\* the IPv4 stack is explored in full; IPv6 is absent or static on both sides
InitIpv4Ifaces ==
    \E d \in DesiredIpv4, c \in OptOf(CurrentIpv4),
       o \in OptOf({StaticIpv6}), w \in WaitIps, k \in BOOLEAN :
        /\ desired = BaseInterface(Some(d), o, w, k)
        /\ current = IF c = None THEN None
                     ELSE Some(BaseInterface(c, o, None, k))

\* the IPv6 stack is explored in full; IPv4 is absent or static on both sides
InitIpv6Ifaces ==
    \E d \in DesiredIpv6, c \in OptOf(CurrentIpv6),
       o \in OptOf({StaticIpv4}), w \in WaitIps, k \in BOOLEAN :
        /\ desired = BaseInterface(o, Some(d), w, k)
        /\ current = IF c = None THEN None
                     ELSE Some(BaseInterface(o, c, None, k))

Init ==
    /\ pc = "desired"
    /\ (InitIpv4Ifaces \/ InitIpv6Ifaces)
    /\ for_apply = desired
    /\ for_verify = desired
    /\ ret = "Ok"
    /\ is_desired = TRUE
    /\ stack0 = Unused /\ stack = Unused /\ trace = Unused /\ dns = Unused
    /\ merged_state = Unused /\ nm_acs = Unused /\ nm_devs = Unused

\* BaseInterface::sanitize on the two stacks of one view
SanitizeIface(iface, desired_flag) ==
    LET r4 == IF IsSome(iface.ipv4)
              THEN InterfaceIpv4_sanitize(Unwrap(iface.ipv4), desired_flag)
              ELSE [ip |-> None, ret |-> "Ok"]
        r6 == IF IsSome(iface.ipv6)
              THEN InterfaceIpv6_sanitize(Unwrap(iface.ipv6), desired_flag)
              ELSE [ip |-> None, ret |-> "Ok"]
    IN  [iface |-> [iface EXCEPT
                       !.ipv4 = IF IsSome(@) THEN Some(r4.ip) ELSE @,
                       !.ipv6 = IF IsSome(@) /\ r4.ret = "Ok"
                                THEN Some(r6.ip) ELSE @],
         ret |-> IF r4.ret # "Ok" THEN r4.ret ELSE r6.ret]

SanitizeDesired ==
    /\ pc = "desired"
    /\ LET a == SanitizeIface(for_apply, is_desired)
           v == SanitizeIface(for_verify, is_desired)
       IN  /\ for_apply' = a.iface
           /\ for_verify' = v.iface
           /\ ret' = a.ret
           /\ pc' = IF a.ret = "Ok" THEN "sanitized" ELSE "failed"
    /\ UNCHANGED <<is_desired, stack0, stack, trace, desired, current, dns, merged_state, nm_acs, nm_devs>>

PostInterIfacesProcessIp ==
    /\ pc = "sanitized"
    /\ LET r == post_inter_ifaces_process_ip(current, for_apply, for_verify)
       IN  /\ for_apply' = r.for_apply
           /\ for_verify' = r.for_verify
           /\ ret' = r.ret
           /\ pc' = IF r.ret = "Ok" THEN "merged" ELSE "failed"
    /\ UNCHANGED <<is_desired, stack0, stack, trace, desired, current, dns, merged_state, nm_acs, nm_devs>>

Next == SanitizeDesired \/ PostInterIfacesProcessIp

Spec == Init /\ [][Next]_vars

----------------------------------------------------------------------------
(* SpecSpecialMerge: special_merge on the merged view of one stack *)

\* the merged stack before special_merge: current overlaid with what the
\* desired stack serializes (ip.rs 466-489 and 879-905: enabled only when it
\* is in prop_list, Option fields only when Some)
Overlay(des, cur) ==
    [f \in DOMAIN cur |->
        IF f = "enabled"
        THEN IF "enabled" \in des.prop_list THEN des.enabled ELSE cur.enabled
        ELSE IF f \in {"prop_list", "allow_extra_address", "dns", "rules"}
        THEN cur[f]
        ELSE IF IsSome(des[f]) THEN des[f] ELSE cur[f]]

InitSpecialMerge ==
    /\ pc = "special_merge"
    /\ \/ \E d \in DesiredIpv4, c \in CurrentIpv4 :
            /\ desired = [fam |-> 4, ip |-> d]
            /\ current = [fam |-> 4, ip |-> c]
       \/ \E d \in DesiredIpv6, c \in CurrentIpv6 :
            /\ desired = [fam |-> 6, ip |-> d]
            /\ current = [fam |-> 6, ip |-> c]
    /\ stack0 = [fam |-> desired.fam, ip |-> Overlay(desired.ip, current.ip)]
    /\ stack = stack0
    /\ ret = "Ok"
    /\ is_desired = FALSE
    /\ trace = Unused /\ for_apply = Unused /\ for_verify = Unused
    /\ dns = Unused
    /\ merged_state = Unused /\ nm_acs = Unused /\ nm_devs = Unused

SpecialMergeIpv4 ==
    /\ pc = "special_merge"
    /\ stack.fam = 4
    /\ stack' = [stack EXCEPT
                   !.ip = InterfaceIpv4_special_merge(@, desired.ip, current.ip)]
    /\ pc' = "special_merged"
    /\ UNCHANGED <<is_desired, stack0, trace, ret, desired, current,
                   for_apply, for_verify, dns, merged_state, nm_acs, nm_devs>>

SpecialMergeIpv6 ==
    /\ pc = "special_merge"
    /\ stack.fam = 6
    /\ stack' = [stack EXCEPT
                   !.ip = InterfaceIpv6_special_merge(@, desired.ip, current.ip)]
    /\ pc' = "special_merged"
    /\ UNCHANGED <<is_desired, stack0, trace, ret, desired, current,
                   for_apply, for_verify, dns, merged_state, nm_acs, nm_devs>>

NextSpecialMerge == SpecialMergeIpv4 \/ SpecialMergeIpv6

SpecSpecialMerge == InitSpecialMerge /\ [][NextSpecialMerge]_vars

----------------------------------------------------------------------------
(* DNS server ordering rule of store_dns_config_to_iface *)

\* a server string is the sequence of its characters
is_ipv6_addr(addr) == \E i \in 1..Len(addr) : addr[i] = ":"

\* the pattern built by the loop of is_mixed_dns_servers
RECURSIVE FamilyPattern(_)
FamilyPattern(srvs) ==
    IF srvs = <<>> THEN <<>>
    ELSE LET pattern == FamilyPattern(SubSeq(srvs, 1, Len(srvs) - 1))
             cur_char == IF is_ipv6_addr(srvs[Len(srvs)]) THEN "6" ELSE "4"
         IN  IF pattern # <<>> /\ pattern[Len(pattern)] = cur_char
             THEN pattern
             ELSE Append(pattern, cur_char)

\* str::contains
Contains(s, sub) ==
    \E i \in 1..(Len(s) - Len(sub) + 1) : SubSeq(s, i, i + Len(sub) - 1) = sub

is_mixed_dns_servers(srvs) ==
    \/ Contains(FamilyPattern(srvs), <<"4", "6", "4">>)
    \/ Contains(FamilyPattern(srvs), <<"6", "4", "6">>)

\* dns.rs 24-25: whether store_dns_config_to_iface does anything
PlacementRuns(d) == d.is_changed \/ ~d.cur_ifaces_still_valid

\* the length guard off by one
ServerOrderRefusedOver3(srvs) == Len(srvs) > 3 /\ is_mixed_dns_servers(srvs)

\* dns.rs 29-36
ServerOrderRefused(srvs) == Len(srvs) > 2 /\ is_mixed_dns_servers(srvs)

\* the strings "192.0.2.53", "::1" and "2001:db8::1"
DnsServers == {
    <<"1", "9", "2", ".", "0", ".", "2", ".", "5", "3">>,
    <<":", ":", "1">>,
    <<"2", "0", "0", "1", ":", "d", "b", "8", ":", ":", "1">> }

InitDns ==
    /\ pc = "store_dns_config_to_iface"
    /\ \E s \in SeqsUpTo(DnsServers, MaxServers), c \in BOOLEAN, v \in BOOLEAN :
          dns = [servers |-> s, is_changed |-> c, cur_ifaces_still_valid |-> v]
    /\ ret = "Ok"
    /\ is_desired = Unused /\ stack0 = Unused /\ stack = Unused
    /\ trace = Unused /\ desired = Unused /\ current = Unused
    /\ for_apply = Unused /\ for_verify = Unused
    /\ merged_state = Unused /\ nm_acs = Unused /\ nm_devs = Unused

\* dns.rs 24-26 false: nothing to do
StoreDnsNotTriggered ==
    /\ pc = "store_dns_config_to_iface"
    /\ ~PlacementRuns(dns)
    /\ pc' = "returned"
    /\ UNCHANGED <<is_desired, stack0, stack, trace, ret, desired, current,
                   for_apply, for_verify, dns, merged_state, nm_acs, nm_devs>>

\* dns.rs 27-36: the ordering check; on success the holders are selected next
StoreDnsCheckOrder ==
    /\ pc = "store_dns_config_to_iface"
    /\ PlacementRuns(dns)
    /\ IF ServerOrderRefused(dns.servers)
       THEN ret' = "NotImplementedError" /\ pc' = "returned"
       ELSE ret' = ret /\ pc' = "select_holders"
    /\ UNCHANGED <<is_desired, stack0, stack, trace, desired, current,
                   for_apply, for_verify, dns, merged_state, nm_acs, nm_devs>>

NextDns == StoreDnsNotTriggered \/ StoreDnsCheckOrder

SpecDns == InitDns /\ [][NextDns]_vars

----------------------------------------------------------------------------
(* DNS placement over the merged interfaces (nm/dns.rs).  Interface names  *)
(* and DNS servers are strings: sequences of one-character strings.        *)

DEFAULT_DNS_PRIORITY == 40

DnsClientState(server, search, options, priority) ==
    [server |-> server, search |-> search, options |-> options,
     priority |-> priority]

OptLen(o) == IF IsSome(o) THEN Len(Unwrap(o)) ELSE 0

\* DnsClientState::is_null: nothing configured
DnsClientState_is_null(c) ==
    OptLen(c.server) = 0 /\ OptLen(c.search) = 0 /\ OptLen(c.options) = 0

\* DnsClientState::is_purge: `config: {}` or all three lists given empty
DnsClientState_is_purge(c) ==
    \/ IsNone(c.server) /\ IsNone(c.search) /\ IsNone(c.options)
    \/ c.server = Some(<<>>) /\ c.search = Some(<<>>) /\ c.options = Some(<<>>)

\* one view of an interface, reduced to what the placement reads and writes
Interface(name, iface_type, state, can_have_ip, ipv4, ipv6) ==
    [name |-> name, iface_type |-> iface_type, state |-> state,
     can_have_ip |-> can_have_ip, ipv4 |-> ipv4, ipv6 |-> ipv6]

is_absent(iface) == iface.state = "absent"

UserspaceTypes == {"ovs-bridge"}
is_userspace(iface_type) == iface_type \in UserspaceTypes

clone_name_type_only(iface) ==
    Interface(iface.name, iface.iface_type, "up", TRUE, None, None)

\* for_apply starts out as the desired view
MergedInterface(cur, merged, apply_iface) ==
    [desired |-> apply_iface, current |-> cur, merged |-> merged,
     for_apply |-> apply_iface]

is_changed(iface) == IsSome(iface.for_apply)

mark_as_changed(iface) ==
    IF IsNone(iface.for_apply) /\ IsSome(iface.current)
    THEN [iface EXCEPT
             !.for_apply = Some(clone_name_type_only(Unwrap(iface.current)))]
    ELSE iface

FamilyField(is_v6) == IF is_v6 THEN "ipv6" ELSE "ipv4"

IpStack_is_auto(ip_conf, is_v6) ==
    IF is_v6 THEN InterfaceIpv6_is_auto(ip_conf)
    ELSE InterfaceIpv4_is_auto(ip_conf)

IpStack_is_static(ip_conf, is_v6) ==
    IF is_v6 THEN InterfaceIpv6_is_static(ip_conf)
    ELSE InterfaceIpv4_is_static(ip_conf)

is_iface_prefered_for_dns(iface, is_v6) ==
    /\ IsSome(iface.for_apply)
    /\ IsSome(Unwrap(iface.for_apply)[FamilyField(is_v6)])
    /\ LET ip_conf == Unwrap(Unwrap(iface.for_apply)[FamilyField(is_v6)])
       IN  /\ ip_conf.enabled
           /\ \/ /\ IpStack_is_static(ip_conf, is_v6)
                 /\ is_v6 => (IsSome(ip_conf.addresses)
                                  /\ Unwrap(ip_conf.addresses) # <<>>)
              \/ /\ IpStack_is_auto(ip_conf, is_v6)
                 /\ ip_conf.auto_dns = Some(FALSE)

is_iface_valid_for_dns(iface, is_v6) ==
    /\ IsSome(iface.merged[FamilyField(is_v6)])
    /\ LET ip_conf == Unwrap(iface.merged[FamilyField(is_v6)])
       IN  /\ ip_conf.enabled
           /\ \/ IpStack_is_static(ip_conf, is_v6)
              \/ IpStack_is_auto(ip_conf, is_v6)

NM_ACTIVATION_STATE_FLAG_EXTERNAL == 128
SUPPORTED_NM_KERNEL_IFACE_TYPES == {"802-3-ethernet", "loopback"}

NmActiveConnection(iface_name, iface_type, state_flags) ==
    [iface_name |-> iface_name, iface_type |-> iface_type,
     state_flags |-> state_flags]

NmDevice(name, iface_type, state) ==
    [name |-> name, iface_type |-> iface_type, state |-> state]

\* x & NM_ACTIVATION_STATE_FLAG_EXTERNAL > 0
HasExternalFlag(x) == (x \div NM_ACTIVATION_STATE_FLAG_EXTERNAL) % 2 = 1

is_external_managed(iface_name, acs) ==
    \E i \in 1..Len(acs) :
        /\ acs[i].iface_name = iface_name
        /\ acs[i].iface_type \in SUPPORTED_NM_KERNEL_IFACE_TYPES
        /\ HasExternalFlag(acs[i].state_flags)

is_unmanaged(iface_name, devs) ==
    \E i \in 1..Len(devs) :
        /\ devs[i].name = iface_name
        /\ devs[i].iface_type \in SUPPORTED_NM_KERNEL_IFACE_TYPES
        /\ devs[i].state = "Unmanaged"

----------------------------------------------------------------------------
(* Text of a DNS server: characters, '%' zone, IPv6 address text *)

HexDigits == <<"0", "1", "2", "3", "4", "5", "6", "7", "8", "9",
               "a", "b", "c", "d", "e", "f">>
UpperHexDigits == <<"A", "B", "C", "D", "E", "F">>

IsHexDigit(c) ==
    \/ \E i \in 1..Len(HexDigits) : HexDigits[i] = c
    \/ \E i \in 1..Len(UpperHexDigits) : UpperHexDigits[i] = c

HexDigitValue(c) ==
    IF \E i \in 1..Len(HexDigits) : HexDigits[i] = c
    THEN (CHOOSE i \in 1..Len(HexDigits) : HexDigits[i] = c) - 1
    ELSE (CHOOSE i \in 1..Len(UpperHexDigits) : UpperHexDigits[i] = c) + 9

\* length of the run of hex digits at the head of s
RECURSIVE HexRun(_)
HexRun(s) ==
    IF s = <<>> \/ ~IsHexDigit(s[1]) THEN 0 ELSE 1 + HexRun(Tail(s))

RECURSIVE HexValue(_)
HexValue(s) ==
    IF s = <<>> THEN 0
    ELSE HexValue(SubSeq(s, 1, Len(s) - 1)) * 16 + HexDigitValue(s[Len(s)])

\* characters to lexical pieces; anything that is not ':' or a group of at
\* most four hex digits becomes a piece no address accepts
RECURSIVE LexIpv6(_)
LexIpv6(s) ==
    IF s = <<>> THEN <<>>
    ELSE IF s[1] = ":" THEN <<Colon>> \o LexIpv6(Tail(s))
    ELSE IF HexRun(s) \in 1..4
    THEN <<Hex(HexValue(SubSeq(s, 1, HexRun(s))))>>
         \o LexIpv6(SubSeqFrom(s, HexRun(s) + 1))
    ELSE <<[k |-> "bad"]>>

RECURSIVE HexChars(_)
HexChars(n) ==
    IF n < 16 THEN <<HexDigits[n + 1]>>
    ELSE HexChars(n \div 16) \o <<HexDigits[(n % 16) + 1]>>

RECURSIVE DecChars(_)
DecChars(n) ==
    IF n < 10 THEN <<HexDigits[n + 1]>>
    ELSE DecChars(n \div 10) \o <<HexDigits[(n % 10) + 1]>>

\* lexical pieces back to characters
RECURSIVE UnlexIpv6(_)
UnlexIpv6(pieces) ==
    IF pieces = <<>> THEN <<>>
    ELSE (IF pieces[1] = Colon THEN <<":">>
          ELSE IF pieces[1].k = "hex" THEN HexChars(pieces[1].v)
          ELSE DecChars(pieces[1].v[1]) \o <<".">> \o DecChars(pieces[1].v[2])
               \o <<".">> \o DecChars(pieces[1].v[3]) \o <<".">>
               \o DecChars(pieces[1].v[4]))
         \o UnlexIpv6(Tail(pieces))

PercentPositions(srv) == {i \in 1..Len(srv) : srv[i] = "%"}

\* srv.split('%') when there is exactly one '%'
BeforePercent(srv) ==
    SubSeq(srv, 1, (CHOOSE i \in PercentPositions(srv) : TRUE) - 1)
AfterPercent(srv) ==
    SubSeqFrom(srv, (CHOOSE i \in PercentPositions(srv) : TRUE) + 1)

\* dns::parse_dns_ipv6_link_local_srv: the address text to store instead of
\* srv, or srv itself when it has no '%'
parse_dns_ipv6_link_local_srv(srv) ==
    IF PercentPositions(srv) = {} THEN [srv |-> srv, ret |-> "Ok"]
    ELSE IF Cardinality(PercentPositions(srv)) # 1
    THEN [srv |-> srv, ret |-> "InvalidArgument"]
    ELSE LET ip == Ipv6Addr_from_str(LexIpv6(BeforePercent(srv))) IN
         IF IsNone(ip) THEN [srv |-> srv, ret |-> "InvalidArgument"]
         ELSE [srv |-> UnlexIpv6(Ipv6Addr_to_string(Unwrap(ip))),
               ret |-> "Ok"]

HasZone(srv) ==
    Cardinality(PercentPositions(srv)) = 1 /\ AfterPercent(srv) # <<>>

\* the same without the zone short-circuit
NoZoneExtracted(srvs) == None

extract_ipv6_link_local_iface_from_dns_srv(srvs) ==
    IF \E i \in 1..Len(srvs) : HasZone(srvs[i])
    THEN LET first == CHOOSE i \in 1..Len(srvs) :
                 /\ HasZone(srvs[i])
                 /\ \A j \in 1..(i - 1) : ~HasZone(srvs[j])
         IN  Some(AfterPercent(srvs[first]))
    ELSE None

----------------------------------------------------------------------------
(* Holder selection *)

\* byte order of the characters interface names are made of
NameChars == <<"0", "1", "2", "3", "b", "e", "h", "l", "o", "r", "t">>
CharRank(c) == CHOOSE i \in 1..Len(NameChars) : NameChars[i] = c

\* str ordering used by sort_unstable
RECURSIVE StrLess(_, _)
StrLess(a, b) ==
    IF b = <<>> THEN FALSE
    ELSE IF a = <<>> THEN TRUE
    ELSE IF a[1] = b[1] THEN StrLess(Tail(a), Tail(b))
    ELSE CharRank(a[1]) < CharRank(b[1])

\* the names of S in ascending order
SortedNames(S) ==
    CHOOSE s \in [1..Cardinality(S) -> S] :
        \A i, j \in 1..Cardinality(S) : i < j => StrLess(s[i], s[j])

\* the first element of seq that is in S
FirstMatch(seq, S) ==
    IF \E i \in 1..Len(seq) : seq[i] \in S
    THEN Some(seq[CHOOSE i \in 1..Len(seq) :
                     /\ seq[i] \in S
                     /\ \A j \in 1..(i - 1) : seq[j] \notin S])
    ELSE None

\* whether the current view of iface holds DNS for the family
CurrentHoldsDns(iface, is_v6) ==
    /\ IsSome(iface.current)
    /\ IsSome(Unwrap(iface.current)[FamilyField(is_v6)])
    /\ LET ip_conf == Unwrap(Unwrap(iface.current)[FamilyField(is_v6)])
       IN  /\ ip_conf.enabled
           /\ IsSome(ip_conf.dns)
           /\ ~DnsClientState_is_null(Unwrap(ip_conf.dns))

\* get_cur_dns_ifaces for one family; values_order is the order in which
\* kernel_ifaces.values() yields the interfaces
get_cur_dns_ifaces(merged_ifaces, values_order, is_v6) ==
    LET Holds(n) == CurrentHoldsDns(merged_ifaces.kernel_ifaces[n], is_v6)
    IN  SelectSeq(values_order, Holds)

\* the same without the look at the current holders
HoldersNeverLooked(merged_ifaces, values_order) == TRUE

cur_dns_ifaces_still_valid_for_dns(merged_ifaces, values_order) ==
    \A is_v6 \in BOOLEAN :
        LET cur == get_cur_dns_ifaces(merged_ifaces, values_order, is_v6)
            K == merged_ifaces.kernel_ifaces
        IN  \A i \in 1..Len(cur) :
                ~(is_changed(K[cur[i]])
                    /\ ~is_iface_valid_for_dns(K[cur[i]], is_v6))

\* insert_order without user-space and loopback entries, names only
KernelInsertOrder(insert_order) ==
    LET Keep(e) == ~is_userspace(e[2]) /\ e[2] # "loopback"
        kept == SelectSeq(insert_order, Keep)
    IN  [i \in 1..Len(kept) |-> kept[i][1]]

\* unchanged, non-loopback interfaces, sorted by name
UnchangedSortedNames(merged_ifaces) ==
    LET K == merged_ifaces.kernel_ifaces IN
    SortedNames({n \in DOMAIN K :
        ~is_changed(K[n]) /\ K[n].merged.iface_type # "loopback"})

\* Option::or_else
OrElse(a, b) == IF IsSome(a) THEN a ELSE b

\* rule 1: a current holder that is changed and still valid
FindStickyCurrent(is_v6, K, cur_dns_ifaces) ==
    FirstMatch(cur_dns_ifaces, {n \in DOMAIN K :
        is_changed(K[n]) /\ is_iface_valid_for_dns(K[n], is_v6)})

\* the same without rule 2
NoPreferredFromDesired(is_v6, K, order) == None

\* rule 2: the first changed interface preferred for DNS, insertion order
FindPreferredFromDesired(is_v6, K, order) ==
    FirstMatch(order, {n \in DOMAIN K :
        is_changed(K[n]) /\ is_iface_prefered_for_dns(K[n], is_v6)})

\* rule 3: the first changed interface valid for DNS, insertion order
FindValidFromDesired(is_v6, K, order) ==
    FirstMatch(order, {n \in DOMAIN K :
        is_changed(K[n]) /\ is_iface_valid_for_dns(K[n], is_v6)})

\* the same without the NetworkManager reports
FindValidFromCurrentAnyReport(is_v6, K, sorted_names, acs, devs) ==
    FirstMatch(sorted_names, {n \in DOMAIN K :
        is_iface_valid_for_dns(K[n], is_v6)})

\* rule 4: the first unchanged interface by name that is valid and that
\* NetworkManager neither marks external nor leaves unmanaged
FindValidFromCurrent(is_v6, K, sorted_names, acs, devs) ==
    FirstMatch(sorted_names, {n \in DOMAIN K :
        /\ is_iface_valid_for_dns(K[n], is_v6)
        /\ ~is_external_managed(n, acs)
        /\ ~is_unmanaged(n, devs)})

find_dns_iface(is_v6, merged_ifaces, cur_dns_ifaces, acs, devs) ==
    OrElse(FindStickyCurrent(is_v6, merged_ifaces.kernel_ifaces,
                             cur_dns_ifaces),
    OrElse(FindPreferredFromDesired(is_v6, merged_ifaces.kernel_ifaces,
               KernelInsertOrder(merged_ifaces.insert_order)),
    OrElse(FindValidFromDesired(is_v6, merged_ifaces.kernel_ifaces,
               KernelInsertOrder(merged_ifaces.insert_order)),
           FindValidFromCurrent(is_v6, merged_ifaces.kernel_ifaces,
               UnchangedSortedNames(merged_ifaces), acs, devs))))

\* Option<String>::unwrap_or_default
NameOrEmpty(o) == IF IsSome(o) THEN Unwrap(o) ELSE <<>>

\* reselect_dns_ifaces: the (ipv4_iface, ipv6_iface) pair
reselect_dns_ifaces(ms, cur_v4_ifaces, cur_v6_ifaces, acs, devs) ==
    [v4 |-> NameOrEmpty(find_dns_iface(FALSE, ms.interfaces, cur_v4_ifaces,
                                       acs, devs)),
     v6 |-> NameOrEmpty(
                OrElse(extract_ipv6_link_local_iface_from_dns_srv(
                           ms.dns.servers),
                       find_dns_iface(TRUE, ms.interfaces, cur_v6_ifaces,
                                      acs, devs)))]

----------------------------------------------------------------------------
(* Purge and write *)

\* the value purge_dns_config writes
PurgeDnsConf == DnsClientState(Some(<<>>), Some(<<>>), Some(<<>>), None)

SetDnsConf(is_v6, iface, dns_conf) ==
    IF IsSome(iface[FamilyField(is_v6)])
    THEN [iface |-> [iface EXCEPT
                        ![FamilyField(is_v6)] =
                            Some([Unwrap(@) EXCEPT !.dns = Some(dns_conf)])],
          ret |-> "Ok"]
    ELSE IF ~DnsClientState_is_purge(dns_conf)
    THEN [iface |-> iface, ret |-> "Bug"]
    ELSE [iface |-> iface, ret |-> "Ok"]

set_iface_dns_conf(is_v6, iface, servers, searches, options, priority) ==
    SetDnsConf(is_v6, iface,
               DnsClientState(Some(servers), Some(searches), Some(options),
                              priority))

\* the same moving the stack out of the merged view instead of cloning it
HoistStackTaken(iface, is_v6) ==
    IF IsSome(iface.for_apply)
         /\ IsNone(Unwrap(iface.for_apply)[FamilyField(is_v6)])
    THEN [iface EXCEPT
             !.for_apply = Some([Unwrap(@) EXCEPT
                                    ![FamilyField(is_v6)] =
                                        iface.merged[FamilyField(is_v6)]]),
             !.merged[FamilyField(is_v6)] = None]
    ELSE iface

\* apply_iface.ipvN = merged.ipvN.clone() when apply_iface has no such stack
HoistStack(iface, is_v6) ==
    IF IsSome(iface.for_apply)
         /\ IsNone(Unwrap(iface.for_apply)[FamilyField(is_v6)])
    THEN [iface EXCEPT !.for_apply =
             Some([Unwrap(@) EXCEPT
                      ![FamilyField(is_v6)] =
                          iface.merged[FamilyField(is_v6)]])]
    ELSE iface

\* the merged interface with the view that set_iface_dns_conf returned
WithApplyView(iface, r) ==
    [iface |-> [iface EXCEPT !.for_apply = Some(r.iface)], ret |-> r.ret]

PurgeHoisted(is_v6, hoisted) ==
    WithApplyView(hoisted,
        set_iface_dns_conf(is_v6, Unwrap(hoisted.for_apply), <<>>, <<>>,
                           <<>>, None))

\* the same without the purge
PurgeSkipped(is_v6, marked) == [iface |-> marked, ret |-> "Ok"]

PurgeMarked(is_v6, marked) ==
    IF IsSome(marked.for_apply) /\ Unwrap(marked.for_apply).can_have_ip
    THEN PurgeHoisted(is_v6, HoistStack(marked, is_v6))
    ELSE [iface |-> marked, ret |-> "Ok"]

\* purge_dns_config, the body of the loop for one interface
PurgeIface(is_v6, iface) ==
    IF is_absent(iface.merged) THEN [iface |-> iface, ret |-> "Ok"]
    ELSE PurgeMarked(is_v6, mark_as_changed(iface))

WithIface(ms, name, iface) ==
    [ms EXCEPT !.interfaces.kernel_ifaces[name] = iface]

RECURSIVE purge_dns_config(_, _, _)
PurgeStep(is_v6, ifaces, ms, r) ==
    IF r.ret # "Ok"
    THEN [ms |-> WithIface(ms, Head(ifaces), r.iface), ret |-> r.ret]
    ELSE purge_dns_config(is_v6, Tail(ifaces),
                          WithIface(ms, Head(ifaces), r.iface))

purge_dns_config(is_v6, ifaces, ms) ==
    IF ifaces = <<>> THEN [ms |-> ms, ret |-> "Ok"]
    ELSE IF Head(ifaces) \notin DOMAIN ms.interfaces.kernel_ifaces
    THEN purge_dns_config(is_v6, Tail(ifaces), ms)
    ELSE PurgeStep(is_v6, ifaces, ms,
             PurgeIface(is_v6, ms.interfaces.kernel_ifaces[Head(ifaces)]))

\* the loop over servers at the head of _save_dns_to_iface
RECURSIVE StripZones(_)
StripZonesStep(servers, r) ==
    IF r.ret # "Ok" THEN [servers |-> servers, ret |-> r.ret]
    ELSE [servers |-> <<r.srv>> \o StripZones(Tail(servers)).servers,
          ret |-> StripZones(Tail(servers)).ret]

StripZones(servers) ==
    IF servers = <<>> THEN [servers |-> <<>>, ret |-> "Ok"]
    ELSE StripZonesStep(servers, parse_dns_ipv6_link_local_srv(Head(servers)))

\* priority of the family that does not hold the first server
SecondaryDnsPriority == DEFAULT_DNS_PRIORITY + 10

\* the same without the priority and search split between the families
AnySaveIsPreferred(preferred) == TRUE

\* the `preferred` argument as _save_dns_to_iface reads it
SaveIsPreferred(preferred) == preferred

WithIfaceResult(ms, name, r) ==
    [ms |-> WithIface(ms, name, r.iface), ret |-> r.ret]

SaveToHoisted(is_v6, hoisted, servers, dns_config, preferred) ==
    IF IsNone(hoisted.for_apply) THEN [iface |-> hoisted, ret |-> "Ok"]
    ELSE IF SaveIsPreferred(preferred)
    THEN WithApplyView(hoisted,
             set_iface_dns_conf(is_v6, Unwrap(hoisted.for_apply), servers,
                                dns_config.searches, dns_config.options,
                                Some(DEFAULT_DNS_PRIORITY)))
    ELSE WithApplyView(hoisted,
             set_iface_dns_conf(is_v6, Unwrap(hoisted.for_apply), servers,
                                <<>>, <<>>, Some(SecondaryDnsPriority)))

SaveStripped(is_v6, iface_name, stripped, ms, preferred) ==
    IF stripped.ret # "Ok" THEN [ms |-> ms, ret |-> stripped.ret]
    ELSE IF iface_name = <<>> THEN [ms |-> ms, ret |-> "InvalidArgument"]
    ELSE IF iface_name \notin DOMAIN ms.interfaces.kernel_ifaces
    THEN [ms |-> ms, ret |-> "Bug"]
    ELSE WithIfaceResult(ms, iface_name,
             SaveToHoisted(is_v6,
                 HoistStack(mark_as_changed(
                                ms.interfaces.kernel_ifaces[iface_name]),
                            is_v6),
                 stripped.servers, ms.dns, preferred))

save_dns_to_one_iface(is_v6, iface_name, servers, ms, preferred) ==
    SaveStripped(is_v6, iface_name, StripZones(servers), ms, preferred)

IsV6Server(srv) == is_ipv6_addr(srv)
IsV4Server(srv) == ~is_ipv6_addr(srv)

SaveV6(v6_iface_name, v6_servers, ms, prefer_ipv6_srv) ==
    IF v6_servers # <<>>
    THEN save_dns_to_one_iface(TRUE, v6_iface_name, v6_servers, ms,
                               prefer_ipv6_srv)
    ELSE [ms |-> ms, ret |-> "Ok"]

SaveV4After(r6, v4_iface_name, v4_servers, prefer_ipv6_srv) ==
    IF r6.ret # "Ok" THEN r6
    ELSE IF v4_servers # <<>>
    THEN save_dns_to_one_iface(FALSE, v4_iface_name, v4_servers, r6.ms,
                               ~prefer_ipv6_srv)
    ELSE r6

SaveSplit(v4_name, v6_name, ms, v4_servers, v6_servers, prefer_ipv6_srv) ==
    SaveV4After(SaveV6(v6_name, v6_servers, ms, prefer_ipv6_srv),
                v4_name, v4_servers, prefer_ipv6_srv)

save_dns_to_iface(v4_iface_name, v6_iface_name, ms) ==
    SaveSplit(v4_iface_name, v6_iface_name, ms,
              SelectSeq(ms.dns.servers, IsV4Server),
              SelectSeq(ms.dns.servers, IsV6Server),
              ms.dns.servers # <<>> /\ is_ipv6_addr(ms.dns.servers[1]))

\* the outcome of one call: the state left behind, the result, and the
\* holders chosen and found (empty when the phases did not run)
PlacementOutcome(ms, result, ran, v4, v6, cur4, cur6) ==
    [ms |-> ms, ret |-> result, ran |-> ran, v4_iface |-> v4,
     v6_iface |-> v6, cur_v4_ifaces |-> cur4, cur_v6_ifaces |-> cur6]

PurgeV6After(p4, cur6) ==
    IF p4.ret = "Ok" THEN purge_dns_config(TRUE, cur6, p4.ms) ELSE p4

SaveAfter(p6, sel) ==
    IF p6.ret = "Ok" THEN save_dns_to_iface(sel.v4, sel.v6, p6.ms) ELSE p6

PhasesOutcome(s, sel, cur4, cur6) ==
    PlacementOutcome(s.ms, s.ret, TRUE, sel.v4, sel.v6, cur4, cur6)

PurgeAndSave(ms, sel, cur4, cur6) ==
    PhasesOutcome(
        SaveAfter(PurgeV6After(purge_dns_config(FALSE, cur4, ms), cur6), sel),
        sel, cur4, cur6)

ReselectPurgeAndSave(ms, acs, devs, cur4, cur6) ==
    PurgeAndSave(ms, reselect_dns_ifaces(ms, cur4, cur6, acs, devs),
                 cur4, cur6)

store_dns_config_to_iface(ms, acs, devs, values_order) ==
    IF ms.dns.is_changed
         \/ ~cur_dns_ifaces_still_valid_for_dns(ms.interfaces, values_order)
    THEN IF ServerOrderRefused(ms.dns.servers)
         THEN PlacementOutcome(ms, "NotImplementedError", FALSE, <<>>, <<>>,
                               <<>>, <<>>)
         ELSE ReselectPurgeAndSave(ms, acs, devs,
                  get_cur_dns_ifaces(ms.interfaces, values_order, FALSE),
                  get_cur_dns_ifaces(ms.interfaces, values_order, TRUE))
    ELSE PlacementOutcome(ms, "Ok", FALSE, <<>>, <<>>, <<>>, <<>>)

----------------------------------------------------------------------------
(* Search/option-only placement *)

SearchOnHoisted(hoisted, searches, options, is_v6) ==
    WithApplyView(hoisted,
        set_iface_dns_conf(is_v6, Unwrap(hoisted.for_apply), <<>>, searches,
                           options, Some(DEFAULT_DNS_PRIORITY)))

SearchOnMarked(marked, searches, options, is_v6) ==
    IF IsSome(marked.for_apply)
    THEN SearchOnHoisted(HoistStack(marked, is_v6), searches, options, is_v6)
    ELSE [iface |-> marked, ret |-> "Ok"]

set_iface_dns_search_or_option(iface, searches, options, is_v6) ==
    SearchOnMarked(IF IsNone(iface.for_apply) THEN mark_as_changed(iface)
                   ELSE iface,
                   searches, options, is_v6)

\* merged.ipvN.as_ref().map(|i| i.is_auto()) or .map(|i| i.enabled)
MergedStackIs(iface, is_v6, want) ==
    /\ IsSome(iface.merged[FamilyField(is_v6)])
    /\ IF want = "auto"
       THEN IpStack_is_auto(Unwrap(iface.merged[FamilyField(is_v6)]), is_v6)
       ELSE Unwrap(iface.merged[FamilyField(is_v6)]).enabled

\* the interfaces with an IPv6 or an IPv4 stack of the wanted kind
FittingIfaces(K, want) ==
    {n \in DOMAIN K : MergedStackIs(K[n], TRUE, want)
                        \/ MergedStackIs(K[n], FALSE, want)}

SearchResult(ms, result, iface, is_v6) ==
    [ms |-> ms, ret |-> result, iface |-> iface, is_v6 |-> is_v6]

StoreSearchOn(ms, n, is_v6, r) ==
    SearchResult(WithIface(ms, n, r.iface), r.ret, n, is_v6)

StoreSearchToFamily(ms, n, is_v6) ==
    StoreSearchOn(ms, n, is_v6,
        set_iface_dns_search_or_option(ms.interfaces.kernel_ifaces[n],
                                       ms.dns.searches, ms.dns.options,
                                       is_v6))

StoreSearchToPick(ms, pick, want) ==
    IF IsNone(pick) THEN SearchResult(ms, "InvalidArgument", <<>>, FALSE)
    ELSE StoreSearchToFamily(ms, Unwrap(pick),
             MergedStackIs(ms.interfaces.kernel_ifaces[Unwrap(pick)], TRUE,
                           want))

\* the two loops shared by the auto and the IP-enabled search: desired
\* insertion order first, then the unchanged interfaces sorted by name
StoreSearchToFirst(ms, acs, devs, want) ==
    StoreSearchToPick(ms,
        OrElse(FirstMatch(KernelInsertOrder(ms.interfaces.insert_order),
                          FittingIfaces(ms.interfaces.kernel_ifaces, want)),
               FirstMatch(UnchangedSortedNames(ms.interfaces),
                          {n \in FittingIfaces(ms.interfaces.kernel_ifaces,
                                               want) :
                              ~is_external_managed(n, acs)
                                /\ ~is_unmanaged(n, devs)})),
        want)

store_dns_search_or_options_to_auto_iface(ms, acs, devs) ==
    StoreSearchToFirst(ms, acs, devs, "auto")

store_dns_search_or_options_to_ip_enabled_iface(ms, acs, devs) ==
    StoreSearchToFirst(ms, acs, devs, "enabled")

\* the first current holder that is still valid and has a for_apply view
ReusableHolder(ms, cur_ifaces, is_v6) ==
    FirstMatch(cur_ifaces, {n \in DOMAIN ms.interfaces.kernel_ifaces :
        /\ is_iface_valid_for_dns(ms.interfaces.kernel_ifaces[n], is_v6)
        /\ IsSome(ms.interfaces.kernel_ifaces[n].for_apply)})

\* writes into the for_apply view of a current holder, as it is
StoreSearchToHolder(ms, n, is_v6) ==
    StoreSearchOn(ms, n, is_v6,
        WithApplyView(ms.interfaces.kernel_ifaces[n],
            set_iface_dns_conf(is_v6,
                Unwrap(ms.interfaces.kernel_ifaces[n].for_apply), <<>>,
                ms.dns.searches, ms.dns.options,
                Some(DEFAULT_DNS_PRIORITY))))

AutoElseIpEnabled(auto, acs, devs) ==
    IF auto.ret = "Ok" THEN auto
    ELSE store_dns_search_or_options_to_ip_enabled_iface(auto.ms, acs, devs)

HolderElseOthers(ms, acs, devs, h6, h4) ==
    IF IsSome(h6) THEN StoreSearchToHolder(ms, Unwrap(h6), TRUE)
    ELSE IF IsSome(h4) THEN StoreSearchToHolder(ms, Unwrap(h4), FALSE)
    ELSE AutoElseIpEnabled(
             store_dns_search_or_options_to_auto_iface(ms, acs, devs),
             acs, devs)

store_dns_search_or_option_to_iface(ms, acs, devs, values_order) ==
    HolderElseOthers(ms, acs, devs,
        ReusableHolder(ms,
            get_cur_dns_ifaces(ms.interfaces, values_order, TRUE), TRUE),
        ReusableHolder(ms,
            get_cur_dns_ifaces(ms.interfaces, values_order, FALSE), FALSE))

----------------------------------------------------------------------------
(* The placement calls as a state machine: the inputs *)

Eth1 == <<"e", "t", "h", "1">>
Eth2 == <<"e", "t", "h", "2">>
Eth3 == <<"e", "t", "h", "3">>
Lo == <<"l", "o">>

\* "1.1.1.1", "8.8.8.8", "2001:db8::1", "2001:DB8::2"
Srv4a == <<"1", ".", "1", ".", "1", ".", "1">>
Srv4b == <<"8", ".", "8", ".", "8", ".", "8">>
Srv6a == <<"2", "0", "0", "1", ":", "d", "b", "8", ":", ":", "1">>
Srv6b == <<"2", "0", "0", "1", ":", "D", "B", "8", ":", ":", "2">>
\* "fe80::1%eth1", "fe80:0::2%eth2", "fe80::3%eth3"
Srv6Zone1 == <<"f", "e", "8", "0", ":", ":", "1", "%", "e", "t", "h", "1">>
Srv6Zone2 == <<"f", "e", "8", "0", ":", "0", ":", ":", "2", "%", "e", "t", "h", "2">>
Srv6Zone3 == <<"f", "e", "8", "0", ":", ":", "3", "%", "e", "t", "h", "3">>

ServerLists == {
    <<>>, <<Srv4a>>, <<Srv6a>>, <<Srv4a, Srv6a>>, <<Srv6b, Srv4a>>,
    <<Srv4a, Srv4b, Srv6a>>, <<Srv6a, Srv6b, Srv4a>>, <<Srv4a, Srv6a, Srv4b>>,
    <<Srv6Zone1>>, <<Srv4a, Srv6Zone2>>, <<Srv6Zone3>>, <<Srv6a, Srv6Zone1>>,
    <<Srv6Zone2, Srv6Zone1>> }

\* server lists of a DNS config that did not change
UnchangedServerLists == {<<>>, <<Srv4a>>, <<Srv4a, Srv6a>>}

DnsConfig(servers, searches, options, changed) ==
    [servers |-> servers, searches |-> searches, options |-> options,
     is_changed |-> changed]

DnsConfigs ==
    {DnsConfig(s, <<"example.com">>, <<"rotate">>, TRUE) : s \in ServerLists}
    \cup {DnsConfig(<<>>, <<>>, <<>>, TRUE),
          DnsConfig(<<>>, <<>>, <<"rotate">>, TRUE)}
    \cup {DnsConfig(s, <<"example.com">>, <<>>, FALSE) :
             s \in UnchangedServerLists}

AutoDnsOff == CHOOSE o \in DhcpOpts : o.auto_dns = Some(FALSE)

\* what a current holder carries: one server at the default priority
HeldDns(is_v6) ==
    DnsClientState(Some(<<IF is_v6 THEN Srv6b ELSE Srv4b>>), Some(<<>>),
                   Some(<<>>), Some(DEFAULT_DNS_PRIORITY))

\* an IPv4 stack by kind: "-" none, "D" disabled, "S" static, "A" dynamic,
\* "Af" dynamic with auto_dns off, "E" enabled without addresses; a trailing
\* "h" marks a stack that holds DNS
Ipv4OfKind(kind) ==
    CASE kind = "-" -> None
      [] kind = "D" -> Some(InterfaceIpv4(FALSE, {}, None, None, NoOpts))
      [] kind \in {"S", "Sh"} ->
            Some(InterfaceIpv4(TRUE, {}, Some(FALSE), Some(<<Addr4Static>>),
                               NoOpts))
      [] kind \in {"A", "Ah"} ->
            Some(InterfaceIpv4(TRUE, {}, Some(TRUE), None, NoOpts))
      [] kind = "Af" ->
            Some(InterfaceIpv4(TRUE, {}, Some(TRUE), None, AutoDnsOff))
      [] kind \in {"E", "Eh"} ->
            Some(InterfaceIpv4(TRUE, {}, Some(FALSE), Some(<<>>), NoOpts))

Ipv6OfKind(kind) ==
    CASE kind = "-" -> None
      [] kind = "D" ->
            Some(InterfaceIpv6(FALSE, {}, None, None, None, None, NoOpts))
      [] kind \in {"S", "Sh"} ->
            Some(InterfaceIpv6(TRUE, {}, Some(FALSE), Some(FALSE),
                               Some(<<Addr6Static>>), None, NoOpts))
      [] kind \in {"A", "Ah"} ->
            Some(InterfaceIpv6(TRUE, {}, Some(TRUE), Some(TRUE), None, None,
                               NoOpts))
      [] kind = "Af" ->
            Some(InterfaceIpv6(TRUE, {}, Some(TRUE), Some(TRUE), None, None,
                               AutoDnsOff))
      [] kind \in {"E", "Eh"} ->
            Some(InterfaceIpv6(TRUE, {}, Some(FALSE), Some(FALSE),
                               Some(<<>>), None, NoOpts))

StackOfKind(kind, is_v6) ==
    LET s == IF is_v6 THEN Ipv6OfKind(kind) ELSE Ipv4OfKind(kind) IN
    IF kind \in {"Sh", "Ah", "Eh"}
    THEN Some([Unwrap(s) EXCEPT !.dns = Some(HeldDns(is_v6))])
    ELSE s

\* one interface of the input: the stack kinds of its current view and of
\* its for_apply view (<<>> when the view does not exist)
Scenario(cur, apply, state, can_have_ip) ==
    [cur |-> cur, apply |-> apply, state |-> state,
     can_have_ip |-> can_have_ip]

IfaceScenarios == {
    Scenario(<<"S", "S">>, <<>>, "up", TRUE),
    Scenario(<<"Sh", "Sh">>, <<>>, "up", TRUE),
    Scenario(<<"D", "A">>, <<>>, "up", TRUE),
    Scenario(<<"Sh", "D">>, <<>>, "up", TRUE),
    Scenario(<<"D", "Eh">>, <<>>, "up", TRUE),
    Scenario(<<"Sh", "Sh">>, <<"-", "-">>, "up", TRUE),
    Scenario(<<"Sh", "Sh">>, <<"D", "D">>, "up", TRUE),
    Scenario(<<"D", "D">>, <<"S", "S">>, "up", TRUE),
    Scenario(<<"S", "S">>, <<"A", "A">>, "up", TRUE),
    Scenario(<<"A", "A">>, <<"Af", "Af">>, "up", TRUE),
    Scenario(<<"D", "Sh">>, <<"S", "-">>, "up", TRUE),
    Scenario(<<>>, <<"S", "A">>, "up", TRUE),
    Scenario(<<"Sh", "Sh">>, <<"-", "-">>, "absent", TRUE),
    Scenario(<<"Sh", "Sh">>, <<"-", "-">>, "up", FALSE) }

\* the merged view of one family: the for_apply stack over the current one;
\* an interface that cannot have IP has the family disabled, and one that is
\* being removed has no stack
MergedStackOfKinds(sc, is_v6) ==
    LET k == IF is_v6 THEN 2 ELSE 1 IN
    IF sc.state = "absent" THEN None
    ELSE IF ~sc.can_have_ip THEN StackOfKind("D", is_v6)
    ELSE IF sc.apply # <<>> /\ sc.apply[k] # "-"
    THEN StackOfKind(sc.apply[k], is_v6)
    ELSE IF sc.cur # <<>> THEN StackOfKind(sc.cur[k], is_v6)
    ELSE None

MergedInterfaceOf(name, iface_type, sc) ==
    MergedInterface(
        IF sc.cur = <<>> THEN None
        ELSE Some(Interface(name, iface_type, "up", TRUE,
                            StackOfKind(sc.cur[1], FALSE),
                            StackOfKind(sc.cur[2], TRUE))),
        Interface(name, iface_type, sc.state, sc.can_have_ip,
                  MergedStackOfKinds(sc, FALSE), MergedStackOfKinds(sc, TRUE)),
        IF sc.apply = <<>> THEN None
        ELSE Some(Interface(name, iface_type, sc.state, sc.can_have_ip,
                            StackOfKind(sc.apply[1], FALSE),
                            StackOfKind(sc.apply[2], TRUE))))

\* the second interface is eth2 or the loopback interface
SecondIfaces == {<<Eth2, "ethernet">>, <<Lo, "loopback">>}
SecondScenarios == {
    Scenario(<<"S", "S">>, <<>>, "up", TRUE),
    Scenario(<<"Sh", "Sh">>, <<>>, "up", TRUE),
    Scenario(<<"D", "A">>, <<>>, "up", TRUE),
    Scenario(<<"Sh", "Sh">>, <<"-", "-">>, "up", TRUE),
    Scenario(<<"Sh", "Sh">>, <<"D", "D">>, "up", TRUE),
    Scenario(<<"D", "D">>, <<"S", "S">>, "up", TRUE),
    Scenario(<<"S", "S">>, <<"A", "A">>, "up", TRUE),
    Scenario(<<>>, <<"S", "A">>, "up", TRUE) }
LoopbackScenarios == {
    Scenario(<<"S", "S">>, <<>>, "up", TRUE),
    Scenario(<<"S", "S">>, <<"S", "S">>, "up", TRUE) }

\* insert_order: the desired interfaces in the order the user listed them,
\* with or without a user-space bridge named like the second interface
RECURSIVE SeqOfSet(_)
SeqOfSet(S) ==
    IF S = {} THEN {<<>>}
    ELSE UNION {{<<x>> \o s : s \in SeqOfSet(S \ {x})} : x \in S}

InsertOrders(K, second) ==
    LET desired_ifaces == {<<n, K[n].merged.iface_type>> :
                              n \in {m \in DOMAIN K : is_changed(K[m])}}
    IN  SeqOfSet(desired_ifaces)
        \cup IF Cardinality(desired_ifaces) = 2
             THEN {<<<<second, "ovs-bridge">>,
                     <<Eth1, K[Eth1].merged.iface_type>>,
                     <<second, K[second].merged.iface_type>>>>}
             ELSE {}

NmHints == {
    [acs |-> <<>>, devs |-> <<>>],
    [acs |-> <<NmActiveConnection(Eth1, "802-3-ethernet",
                                  NM_ACTIVATION_STATE_FLAG_EXTERNAL + 2)>>,
     devs |-> <<NmDevice(Eth2, "802-3-ethernet", "Activated")>>],
    [acs |-> <<NmActiveConnection(Eth1, "802-3-ethernet", 2),
               NmActiveConnection(Eth2, "vpn",
                                  NM_ACTIVATION_STATE_FLAG_EXTERNAL)>>,
     devs |-> <<NmDevice(Eth1, "802-3-ethernet", "Activated"),
                NmDevice(Eth2, "802-3-ethernet", "Unmanaged")>>] }

MaxPlacementRuns == 2

InitPlacement ==
    \E sc1 \in IfaceScenarios, second \in SecondIfaces, d \in DnsConfigs,
       h \in NmHints :
      \E sc2 \in IF second[2] = "loopback" THEN LoopbackScenarios
                 ELSE SecondScenarios :
        LET K == (Eth1 :> MergedInterfaceOf(Eth1, "ethernet", sc1))
                 @@ (second[1] :> MergedInterfaceOf(second[1], second[2], sc2))
        IN  \E order \in InsertOrders(K, second[1]) :
              /\ merged_state =
                     [dns |-> d,
                      interfaces |-> [kernel_ifaces |-> K,
                                      insert_order |-> order]]
              /\ nm_acs = h.acs
              /\ nm_devs = h.devs
              /\ trace = <<>>
              /\ pc = "ready"
              /\ ret = Unused
              /\ is_desired = Unused /\ stack0 = Unused /\ stack = Unused
              /\ desired = Unused /\ current = Unused /\ for_apply = Unused
              /\ for_verify = Unused /\ dns = Unused

\* the orders in which kernel_ifaces.values() may yield the interfaces
ValuesOrders(ms) == SeqOfSet(DOMAIN ms.interfaces.kernel_ifaces)

CallRecord(fn, input, out) == [fn |-> fn, input |-> input, out |-> out]

\* the call leaves its state in merged_state and its record in the trace
Returns(fn, out) ==
    /\ merged_state' = out.ms
    /\ ret' = out.ret
    /\ trace' = Append(trace, CallRecord(fn, merged_state, out))

StoreDnsConfigToIface ==
    /\ pc = "ready"
    /\ \E values_order \in ValuesOrders(merged_state) :
         Returns("store_dns_config_to_iface",
                 store_dns_config_to_iface(merged_state, nm_acs, nm_devs,
                                           values_order))
    /\ pc' = "done"
    /\ UNCHANGED <<is_desired, stack0, stack, desired, current, for_apply,
                   for_verify, dns, nm_acs, nm_devs>>

SearchOutcome(r, cur4, cur6) ==
    PlacementOutcome(r.ms, r.ret, TRUE,
                     IF r.is_v6 THEN <<>> ELSE r.iface,
                     IF r.is_v6 THEN r.iface ELSE <<>>, cur4, cur6)

\* called for a config that carries searches or options but no servers
StoreDnsSearchOrOptionToIface ==
    /\ pc = "ready"
    /\ merged_state.dns.servers = <<>>
    /\ merged_state.dns.searches # <<>> \/ merged_state.dns.options # <<>>
    /\ \E values_order \in ValuesOrders(merged_state) :
         Returns("store_dns_search_or_option_to_iface",
                 SearchOutcome(
                     store_dns_search_or_option_to_iface(
                         merged_state, nm_acs, nm_devs, values_order),
                     get_cur_dns_ifaces(merged_state.interfaces,
                                        values_order, FALSE),
                     get_cur_dns_ifaces(merged_state.interfaces,
                                        values_order, TRUE)))
    /\ pc' = "done"
    /\ UNCHANGED <<is_desired, stack0, stack, desired, current, for_apply,
                   for_verify, dns, nm_acs, nm_devs>>

\* the next run starts from the same inputs
NextRun ==
    /\ pc = "done"
    /\ Len(trace) < MaxPlacementRuns
    /\ merged_state' = trace[1].input
    /\ pc' = "ready"
    /\ UNCHANGED <<is_desired, stack0, stack, desired, current, for_apply,
                   for_verify, dns, nm_acs, nm_devs, trace, ret>>

NextPlacement ==
    \/ StoreDnsConfigToIface
    \/ StoreDnsSearchOrOptionToIface
    \/ NextRun

SpecPlacement == InitPlacement /\ [][NextPlacement]_vars

----------------------------------------------------------------------------
(* Properties of sanitize, checked under SpecSanitize *)

\* the calls made so far that returned Ok
OkCalls == {k \in 1..Len(trace) : trace[k].ret = "Ok"}

AddrsOf(s) == IF IsSome(s.addresses) THEN Unwrap(s.addresses) ELSE <<>>

FiniteLifetime(a) ==
    IsSome(a.valid_life_time) /\ Unwrap(a.valid_life_time) # "forever"

InFe80Slash10(ip) == ip.v = 6 /\ ip.parts[1] \in 65152..65215

\* C1: sanitize is idempotent: when the first call returns Ok, a second
\* call with the same is_desired returns Ok and leaves every field unchanged
C1_SanitizeIdempotent ==
    (Len(trace) >= 2 /\ trace[1].ret = "Ok")
        => (trace[2].ret = "Ok" /\ trace[2].ip = trace[1].ip)

\* C4 as claimed: after sanitize returns Ok no stack, IPv4 or IPv6, is left
\* enabled with addresses = Some([])
C4_NeverEnabledWithEmptyList ==
    \A k \in OkCalls :
        ~(trace[k].ip.enabled /\ trace[k].ip.addresses = Some(<<>>))

\* C4 as amended: an IPv4 stack given enabled, not dhcp and with the empty
\* list comes out disabled with addresses None; an IPv4 stack comes out
\* enabled with the empty list only when it is dhcp or when its list was
\* non-empty and held only auto addresses; sanitize never enables a stack and
\* never changes enabled on an IPv6 stack
C4_Ipv4CollapseOfGivenEmptyList ==
    1 \in OkCalls =>
        LET in == stack0.ip
            out == trace[1].ip
        IN  IF stack0.fam = 4
            THEN /\ (in.enabled /\ in.dhcp # Some(TRUE)
                        /\ in.addresses = Some(<<>>))
                    => (~out.enabled /\ out.addresses = None)
                 /\ (out.enabled /\ out.addresses = Some(<<>>))
                    => \/ in.dhcp = Some(TRUE)
                       \/ /\ AddrsOf(in) # <<>>
                          /\ \A i \in 1..Len(AddrsOf(in)) :
                                FiniteLifetime(AddrsOf(in)[i])
                 /\ out.enabled => in.enabled
            ELSE out.enabled = in.enabled

C4_Witness ==
    /\ 1 \in OkCalls
    /\ stack0.fam = 4
    /\ stack0.ip.enabled /\ stack0.ip.dhcp = Some(FALSE)
    /\ stack0.ip.addresses = Some(<<>>)
    /\ ~trace[1].ip.enabled

\* C5: after sanitize returns Ok a stack with enabled = false has dhcp,
\* addresses and (IPv6) autoconf all None
C5_DisabledIsCanonical ==
    \A k \in OkCalls :
        ~trace[k].ip.enabled =>
            /\ trace[k].ip.dhcp = None
            /\ trace[k].ip.addresses = None
            /\ stack0.fam = 6 => trace[k].ip.autoconf = None

C5_Witness ==
    /\ 1 \in OkCalls
    /\ stack0.fam = 6
    /\ ~stack0.ip.enabled
    /\ stack0.ip.autoconf = Some(TRUE) /\ stack0.ip.dhcp = Some(TRUE)
    /\ stack0.ip.addresses # None
    /\ trace[1].ip.autoconf = None

\* C7: after sanitize returns Ok every remaining address has both lifetimes
\* None, and no remaining address is one that came in with a finite
\* valid_life_time
C7_NoFiniteLifetimeLeft ==
    \A k \in OkCalls :
        \A i \in 1..Len(AddrsOf(trace[k].ip)) :
            LET a == AddrsOf(trace[k].ip)[i] IN
            /\ a.valid_life_time = None
            /\ a.preferred_life_time = None
            /\ \A j \in 1..Len(AddrsOf(stack0.ip)) :
                  FiniteLifetime(AddrsOf(stack0.ip)[j])
                      => AddrsOf(stack0.ip)[j].ip # a.ip

C7_Witness ==
    /\ 1 \in OkCalls
    /\ \E j \in 1..Len(AddrsOf(stack0.ip)) :
          FiniteLifetime(AddrsOf(stack0.ip)[j])
    /\ \E j \in 1..Len(AddrsOf(stack0.ip)) :
          AddrsOf(stack0.ip)[j].valid_life_time = Some("forever")
    /\ Len(AddrsOf(trace[1].ip)) = 1

\* C8: after sanitize returns Ok, with is_desired true or false, an IPv4
\* stack holds only IPv4 addresses and an IPv6 stack only IPv6 addresses
\* outside fe80::/10; with is_desired = true a wrong-family address or a
\* prefix length above the family width gives InvalidArgument
C8_FamilyPurity ==
    /\ \A k \in OkCalls :
          \A i \in 1..Len(AddrsOf(trace[k].ip)) :
              LET a == AddrsOf(trace[k].ip)[i] IN
              IF stack0.fam = 4 THEN a.ip.v = 4
              ELSE a.ip.v = 6 /\ ~InFe80Slash10(a.ip)
    /\ (Len(trace) >= 1 /\ is_desired
          /\ \E j \in 1..Len(AddrsOf(stack0.ip)) :
                LET a == AddrsOf(stack0.ip)[j] IN
                \/ a.ip.v # stack0.fam
                \/ a.prefix_length > (IF stack0.fam = 4 THEN 32 ELSE 128))
       => trace[1].ret = "InvalidArgument"

----------------------------------------------------------------------------
(* Properties of the merge, checked under Spec *)

Families == {"ipv4", "ipv6"}

\* a stack of one view; the IPv4 stack is given autoconf = None so that the
\* two families can be read alike
StackOf(iface, fam) ==
    IF fam = "ipv4" THEN [autoconf |-> None] @@ Unwrap(iface[fam])
    ELSE Unwrap(iface[fam])

BothSidesHave(iface, fam) ==
    /\ IsSome(current)
    /\ IsSome(iface[fam])
    /\ IsSome(Unwrap(current)[fam])

\* no static address is given: no list, or only addresses with a finite
\* lifetime or in fe80::/10
NoStaticGiven(addrs) ==
    IsSome(addrs) =>
        \A i \in 1..Len(Unwrap(addrs)) :
            \/ FiniteLifetime(Unwrap(addrs)[i])
            \/ InFe80Slash10(Unwrap(addrs)[i].ip)

\* the current stack is dynamic and holds the non-empty list A, and the
\* stack handed to merge_ip turns dhcp (and autoconf) off, gives no static
\* address and stays enabled
DhcpTurnedOff(self, cur) ==
    /\ cur.enabled
    /\ cur.dhcp = Some(TRUE) \/ cur.autoconf = Some(TRUE)
    /\ IsSome(cur.addresses) /\ Unwrap(cur.addresses) # <<>>
    /\ self.dhcp = Some(FALSE)
    /\ self.autoconf # Some(TRUE)
    /\ self.autoconf = None => cur.autoconf # Some(TRUE)
    /\ NoStaticGiven(self.addresses)
    /\ IF "enabled" \in self.prop_list THEN self.enabled ELSE cur.enabled

\* addrs is A, in A's order, with both lifetimes None
IsStaticCopyOf(addrs, A) ==
    /\ IsSome(addrs)
    /\ Len(Unwrap(addrs)) = Len(A)
    /\ \A i \in 1..Len(A) :
          /\ Unwrap(addrs)[i].ip = A[i].ip
          /\ Unwrap(addrs)[i].prefix_length = A[i].prefix_length
          /\ Unwrap(addrs)[i].valid_life_time = None
          /\ Unwrap(addrs)[i].preferred_life_time = None

DisabledIsCanonical(s) ==
    ~s.enabled => (s.dhcp = None /\ s.addresses = None /\ s.autoconf = None)

\* C6: after post_inter_ifaces_process_ip a stack of for_apply or for_verify
\* with enabled = false has dhcp, addresses and (IPv6) autoconf None, also
\* when enabled was inherited from a disabled current stack
C6_DisabledIsCanonicalAfterMerge ==
    pc = "merged" =>
        \A fam \in Families :
            /\ IsSome(for_apply[fam])
                  => DisabledIsCanonical(StackOf(for_apply, fam))
            /\ IsSome(for_verify[fam])
                  => DisabledIsCanonical(StackOf(for_verify, fam))

\* C9: after sanitize of the desired stack and post_inter_ifaces_process_ip,
\* for_apply holds no address in fe80::/10 on its IPv6 stack
C9_NoLinkLocalInForApply ==
    (pc = "merged" /\ IsSome(for_apply.ipv6)) =>
        \A i \in 1..Len(AddrsOf(Unwrap(for_apply.ipv6))) :
            ~InFe80Slash10(AddrsOf(Unwrap(for_apply.ipv6))[i].ip)

----------------------------------------------------------------------------
(* Property of special_merge, checked under SpecSpecialMerge *)

\* the merged stack with enabled, dhcp and autoconf as special_merge
\* inherits them
AfterInheritance ==
    LET self == [autoconf |-> None] @@ stack0.ip
        des == [autoconf |-> None] @@ desired.ip
        cur == [autoconf |-> None] @@ current.ip
        en == IF "enabled" \in des.prop_list THEN self.enabled ELSE cur.enabled
    IN  [enabled |-> en,
         dhcp |-> IF des.dhcp = None /\ en THEN cur.dhcp ELSE self.dhcp,
         autoconf |-> IF des.autoconf = None /\ en THEN cur.autoconf
                      ELSE self.autoconf]

\* C3: special_merge applies the dynamic-to-static rule: when current is
\* dynamic with the non-empty list A and the stack stays enabled, is not dynamic and
\* desired gives no static address, special_merge leaves addresses equal to A
\* with lifetimes None, IPv4 and IPv6 alike
C3_SpecialMergeKeepsDynamicAsStatic ==
    LET cur == [autoconf |-> None] @@ current.ip
        self == AfterInheritance
    IN  (/\ pc = "special_merged"
         /\ cur.enabled
         /\ cur.dhcp = Some(TRUE) \/ cur.autoconf = Some(TRUE)
         /\ IsSome(cur.addresses) /\ Unwrap(cur.addresses) # <<>>
         /\ self.enabled
         /\ self.dhcp # Some(TRUE) /\ self.autoconf # Some(TRUE)
         /\ NoStaticGiven(desired.ip.addresses))
        => IsStaticCopyOf(stack.ip.addresses, Unwrap(cur.addresses))

----------------------------------------------------------------------------
(* Property of the DNS server ordering rule, checked under SpecDns *)

\* the servers at positions i < j < k are of families f, g, f
Sandwich(srvs, f, g) ==
    \E i, j, k \in 1..Len(srvs) :
        /\ i < j /\ j < k
        /\ ((":" \in {srvs[i][n] : n \in 1..Len(srvs[i])}) <=> f)
        /\ ((":" \in {srvs[j][n] : n \in 1..Len(srvs[j])}) <=> g)
        /\ ((":" \in {srvs[k][n] : n \in 1..Len(srvs[k])}) <=> f)

\* C10: when placement runs, store_dns_config_to_iface returns
\* NotImplementedError exactly for the server lists whose compressed family
\* pattern contains 464 or 646 (a run of one family between two servers of
\* the other); every other list passes on to the selection
C10_DnsOrderingRule ==
    (pc # "store_dns_config_to_iface" /\ PlacementRuns(dns)) =>
        IF Sandwich(dns.servers, FALSE, TRUE) \/ Sandwich(dns.servers, TRUE, FALSE)
        THEN pc = "returned" /\ ret = "NotImplementedError"
        ELSE pc = "select_holders" /\ ret = "Ok"

C10_Witness ==
    /\ pc = "returned"
    /\ ret = "NotImplementedError"
    /\ Len(dns.servers) = 4
    /\ FamilyPattern(dns.servers) = <<"6", "4", "6">>

----------------------------------------------------------------------------
(* Property of the wait_ip validation, checked under Spec *)

ViewStackEnabled(iface, fam) == IsSome(iface[fam]) /\ Unwrap(iface[fam]).enabled

\* C20: whenever post_inter_ifaces_process_ip returns Ok, with or without a
\* current view, for_apply has wait_ip = ipv4 only with IPv4 enabled,
\* wait_ip = ipv6 only with IPv6 enabled and wait_ip = ipv4+ipv6 only with
\* both enabled
C20_WaitIpConsistent ==
    pc = "merged" =>
        /\ for_apply.wait_ip \in {Some("ipv4"), Some("ipv4+ipv6")}
              => ViewStackEnabled(for_apply, "ipv4")
        /\ for_apply.wait_ip \in {Some("ipv6"), Some("ipv4+ipv6")}
              => ViewStackEnabled(for_apply, "ipv6")

----------------------------------------------------------------------------
(* Properties of the DNS placement, checked under SpecPlacement *)

\* the calls of store_dns_config_to_iface made so far
ConfigCalls ==
    {i \in 1..Len(trace) : trace[i].fn = "store_dns_config_to_iface"}

\* the calls whose purge and write phases ran and which returned Ok
PlacedCalls == {i \in ConfigCalls : trace[i].out.ran /\ trace[i].out.ret = "Ok"}

ServersOfFamily(srvs, is_v6) ==
    IF is_v6 THEN SelectSeq(srvs, IsV6Server) ELSE SelectSeq(srvs, IsV4Server)

HolderOf(out, is_v6) == IF is_v6 THEN out.v6_iface ELSE out.v4_iface
CurHoldersOf(out, is_v6) ==
    IF is_v6 THEN out.cur_v6_ifaces ELSE out.cur_v4_ifaces

\* the DNS config that the for_apply view of interface n carries for a family
ApplyDnsOf(ms, n, is_v6) ==
    LET iface == ms.interfaces.kernel_ifaces[n] IN
    IF IsSome(iface.for_apply)
         /\ IsSome(Unwrap(iface.for_apply)[FamilyField(is_v6)])
    THEN Unwrap(Unwrap(iface.for_apply)[FamilyField(is_v6)]).dns
    ELSE None

\* stored is the given server, or the given server's address without zone
SameServer(stored, given) ==
    IF PercentPositions(given) = {} THEN stored = given
    ELSE /\ PercentPositions(stored) = {}
         /\ Ipv6Addr_from_str(LexIpv6(stored))
              = Ipv6Addr_from_str(LexIpv6(BeforePercent(given)))

SameServers(stored, given) ==
    /\ Len(stored) = Len(given)
    /\ \A k \in 1..Len(given) : SameServer(stored[k], given[k])

\* the holder of a family carries that family's servers in their given order
HolderCarries(rec, is_v6, searches, options, priority) ==
    LET n == HolderOf(rec.out, is_v6)
        d == IF n \in DOMAIN rec.out.ms.interfaces.kernel_ifaces
             THEN ApplyDnsOf(rec.out.ms, n, is_v6) ELSE None
    IN  /\ IsSome(d)
        /\ IsSome(Unwrap(d).server)
        /\ SameServers(Unwrap(Unwrap(d).server),
                       ServersOfFamily(rec.input.dns.servers, is_v6))
        /\ Unwrap(d).search = Some(searches)
        /\ Unwrap(d).options = Some(options)
        /\ Unwrap(d).priority = Some(priority)

\* C11: after a successful placement the holder of the family of the first
\* server carries its family's servers in their given order, all searches and
\* all options with priority 40; the holder of the other family carries its
\* servers in their given order with no searches, no options and priority 50.
C11_ServerSplitAndPriority ==
    \A i \in PlacedCalls : \A is_v6 \in BOOLEAN :
        LET rec == trace[i]
            srvs == rec.input.dns.servers
        IN  ServersOfFamily(srvs, is_v6) # <<>> =>
                IF is_ipv6_addr(srvs[1]) = is_v6
                THEN HolderCarries(rec, is_v6, rec.input.dns.searches,
                                   rec.input.dns.options, 40)
                ELSE HolderCarries(rec, is_v6, <<>>, <<>>, 50)

\* a successful placement of <<v6, v6, v4>> servers with searches
C11_Witness ==
    \E i \in PlacedCalls :
        /\ trace[i].input.dns.servers = <<Srv6a, Srv6b, Srv4a>>
        /\ trace[i].input.dns.searches # <<>>
        /\ trace[i].out.v4_iface # trace[i].out.v6_iface

\* the calls whose purge and write phases ran
RanCalls == {i \in ConfigCalls : trace[i].out.ran}

\* the current holders of a family in the input of a call
InputHolders(rec, is_v6) ==
    {n \in DOMAIN rec.input.interfaces.kernel_ifaces :
        CurrentHoldsDns(rec.input.interfaces.kernel_ifaces[n], is_v6)}

\* positions of insert_order that name a kernel interface which is changed,
\* and whose entry is neither user-space nor loopback
DesiredPositions(rec) ==
    LET K == rec.input.interfaces.kernel_ifaces
        order == rec.input.interfaces.insert_order
    IN  {p \in 1..Len(order) :
            /\ ~is_userspace(order[p][2]) /\ order[p][2] # "loopback"
            /\ order[p][1] \in DOMAIN K
            /\ is_changed(K[order[p][1]])}

StickyMatches(rec, is_v6) ==
    {n \in InputHolders(rec, is_v6) :
        /\ is_changed(rec.input.interfaces.kernel_ifaces[n])
        /\ is_iface_valid_for_dns(rec.input.interfaces.kernel_ifaces[n],
                                  is_v6)}

PreferredPositions(rec, is_v6) ==
    {p \in DesiredPositions(rec) :
        is_iface_prefered_for_dns(
            rec.input.interfaces.kernel_ifaces[
                rec.input.interfaces.insert_order[p][1]], is_v6)}

ValidPositions(rec, is_v6) ==
    {p \in DesiredPositions(rec) :
        is_iface_valid_for_dns(
            rec.input.interfaces.kernel_ifaces[
                rec.input.interfaces.insert_order[p][1]], is_v6)}

CurrentMatches(rec, is_v6) ==
    LET K == rec.input.interfaces.kernel_ifaces IN
    {n \in DOMAIN K :
        /\ ~is_changed(K[n])
        /\ K[n].merged.iface_type # "loopback"
        /\ is_iface_valid_for_dns(K[n], is_v6)
        /\ ~is_external_managed(n, nm_acs)
        /\ ~is_unmanaged(n, nm_devs)}

MinOf(S) == CHOOSE p \in S : \A q \in S : p <= q
FirstByName(S) == CHOOSE n \in S : \A m \in S \ {n} : StrLess(n, m)

\* holder is what the four rules, read in order, allow for the family
FollowsSelectionOrder(rec, is_v6, holder) ==
    LET order == rec.input.interfaces.insert_order IN
    IF StickyMatches(rec, is_v6) # {}
    THEN holder \in StickyMatches(rec, is_v6)
    ELSE IF PreferredPositions(rec, is_v6) # {}
    THEN holder = order[MinOf(PreferredPositions(rec, is_v6))][1]
    ELSE IF ValidPositions(rec, is_v6) # {}
    THEN holder = order[MinOf(ValidPositions(rec, is_v6))][1]
    ELSE IF CurrentMatches(rec, is_v6) # {}
    THEN holder = FirstByName(CurrentMatches(rec, is_v6))
    ELSE holder = <<>>

\* the family's holder of the call came from find_dns_iface
FoundByRules(rec, is_v6) ==
    ~is_v6 \/ IsNone(extract_ipv6_link_local_iface_from_dns_srv(
                         rec.input.dns.servers))

ReportedForeign(n) ==
    is_external_managed(n, nm_acs) \/ is_unmanaged(n, nm_devs)

\* what find_dns_iface returns for the call when no interface is reported
HolderWithoutReports(rec, is_v6) ==
    NameOrEmpty(find_dns_iface(is_v6, rec.input.interfaces,
                               CurHoldersOf(rec.out, is_v6), <<>>, <<>>))

\* C13: an interface reported as external-managed or unmanaged is selected
\* by find_dns_iface only if it already holds DNS for the family, and a
\* holder that would be kept without the report is kept with it.
C13_ForeignNeverNewHolder ==
    \A i \in RanCalls : \A is_v6 \in BOOLEAN :
        LET rec == trace[i]
            h == HolderOf(rec.out, is_v6)
        IN  FoundByRules(rec, is_v6) =>
              /\ (h # <<>> /\ ReportedForeign(h))
                    => h \in InputHolders(rec, is_v6)
              /\ HolderWithoutReports(rec, is_v6) \in InputHolders(rec, is_v6)
                    => h = HolderWithoutReports(rec, is_v6)

\* C13 (amended): an unchanged interface reported as external-managed or
\* unmanaged is never selected by find_dns_iface, whether or not it holds DNS
\* for the family; a changed interface is selected by rules 1 to 3 whether
\* or not it is reported, so a changed holder is kept with the report when
\* it would be kept without it.
C13_UnchangedForeignNeverSelected ==
    \A i \in RanCalls : \A is_v6 \in BOOLEAN :
        LET rec == trace[i]
            K == rec.input.interfaces.kernel_ifaces
            h == HolderOf(rec.out, is_v6)
            free == HolderWithoutReports(rec, is_v6)
        IN  FoundByRules(rec, is_v6) =>
              /\ (h # <<>> /\ ReportedForeign(h)) => is_changed(K[h])
              /\ (free # <<>> /\ is_changed(K[free])) => h = free

\* an unchanged holder that is reported is passed over for another interface
C13_Witness ==
    \E i \in RanCalls :
        LET rec == trace[i]
            free == HolderWithoutReports(rec, FALSE)
        IN  /\ free \in InputHolders(rec, FALSE)
            /\ ~is_changed(rec.input.interfaces.kernel_ifaces[free])
            /\ ReportedForeign(free)
            /\ rec.out.v4_iface \notin {free, <<>>}

\* positions of the servers that carry a non-empty zone
ZonedPositions(srvs) == {k \in 1..Len(srvs) : HasZone(srvs[k])}

\* C14: when a server carries a non-empty %iface zone, the IPv6 holder is
\* the interface named by the (first) zone whatever the selection rules
\* would pick, and after a successful placement that interface carries the
\* IPv6 servers without their zone suffix.
C14_ZoneSelectsHolder ==
    \A i \in RanCalls :
        LET rec == trace[i]
            srvs == rec.input.dns.servers
        IN  ZonedPositions(srvs) # {} =>
              /\ rec.out.v6_iface
                   = AfterPercent(srvs[MinOf(ZonedPositions(srvs))])
              /\ rec.out.ret = "Ok" =>
                   /\ IsSome(ApplyDnsOf(rec.out.ms, rec.out.v6_iface, TRUE))
                   /\ LET stored == Unwrap(Unwrap(ApplyDnsOf(rec.out.ms,
                                        rec.out.v6_iface, TRUE)).server)
                      IN  /\ \A k \in 1..Len(stored) :
                                 PercentPositions(stored[k]) = {}
                          /\ SameServers(stored, ServersOfFamily(srvs, TRUE))

\* "fe80:0::2%eth2" is stored as "fe80::2" on eth2 although the selection
\* rules pick another interface for IPv6
C14_Witness ==
    \E i \in RanCalls :
        /\ trace[i].input.dns.servers = <<Srv4a, Srv6Zone2>>
        /\ trace[i].out.ret = "Ok"
        /\ trace[i].out.v6_iface = Eth2
        /\ HolderWithoutReports(trace[i], TRUE) \notin {Eth2, <<>>}
        /\ Unwrap(ApplyDnsOf(trace[i].out.ms, Eth2, TRUE)).server
             = Some(<<<<"f", "e", "8", "0", ":", ":", "2">>>>)

\* the family has servers in the input of the call but got no holder
LacksHolder(rec, is_v6) ==
    /\ ServersOfFamily(rec.input.dns.servers, is_v6) # <<>>
    /\ HolderOf(rec.out, is_v6) = <<>>

\* C15: when placement runs and some family has a server but no holder, the
\* call returns InvalidArgument; a family without servers and without a
\* holder is not an error.
C15_NoHolderIsInvalidArgument ==
    \A i \in RanCalls :
        /\ (\E is_v6 \in BOOLEAN : LacksHolder(trace[i], is_v6))
              => trace[i].out.ret = "InvalidArgument"
        /\ (\A is_v6 \in BOOLEAN : ~LacksHolder(trace[i], is_v6))
              => trace[i].out.ret # "InvalidArgument"

\* the family has servers and n is the holder they were written to
WrittenHolder(rec, n, is_v6) ==
    /\ ServersOfFamily(rec.input.dns.servers, is_v6) # <<>>
    /\ n = HolderOf(rec.out, is_v6)

\* the for_apply view of n carries the purge value on the family's stack,
\* which is the merged one when the given for_apply view had none
PurgedIn(rec, n, is_v6) ==
    LET before == rec.input.interfaces.kernel_ifaces[n]
        after == rec.out.ms.interfaces.kernel_ifaces[n]
        f == FamilyField(is_v6)
    IN  /\ is_changed(after)
        /\ ApplyDnsOf(rec.out.ms, n, is_v6) = Some(PurgeDnsConf)
        /\ (IsNone(before.for_apply) \/ IsNone(Unwrap(before.for_apply)[f]))
              => Unwrap(after.for_apply)[f]
                   = Some([Unwrap(before.merged[f]) EXCEPT
                              !.dns = Some(PurgeDnsConf)])

\* the holder carries the servers just written, not the purge value
NewlyWritten(rec, n, is_v6) ==
    /\ IsSome(ApplyDnsOf(rec.out.ms, n, is_v6))
    /\ Unwrap(ApplyDnsOf(rec.out.ms, n, is_v6)) # PurgeDnsConf
    /\ SameServers(Unwrap(Unwrap(ApplyDnsOf(rec.out.ms, n, is_v6)).server),
                   ServersOfFamily(rec.input.dns.servers, is_v6))

\* C16: after a successful placement every interface that held DNS for a
\* family and is not the holder written for it is marked changed and has in
\* for_apply that family's stack, hoisted from the merged view if need be,
\* with the purge value; a previous holder chosen again carries the newly
\* written configuration and never the purge value.
C16_PurgeBeforeWrite ==
    \A i \in PlacedCalls : \A is_v6 \in BOOLEAN :
        \A n \in InputHolders(trace[i], is_v6) :
            IF WrittenHolder(trace[i], n, is_v6)
            THEN NewlyWritten(trace[i], n, is_v6)
            ELSE PurgedIn(trace[i], n, is_v6)

\* the previous holders that the purge passes over
PurgeExempt(rec, n) ==
    LET before == rec.input.interfaces.kernel_ifaces[n] IN
    \/ is_absent(before.merged)
    \/ IsSome(before.for_apply) /\ ~Unwrap(before.for_apply).can_have_ip

\* C16 (amended): the same for every previous holder whose merged view is
\* not absent and whose for_apply view can have IP; a previous holder whose
\* merged view is absent is left as it was, and one whose for_apply view
\* cannot have IP is marked changed without the purge value.
C16_PurgeBeforeWriteUnlessExempt ==
    \A i \in PlacedCalls : \A is_v6 \in BOOLEAN :
        \A n \in InputHolders(trace[i], is_v6) :
            LET rec == trace[i]
                before == rec.input.interfaces.kernel_ifaces[n]
                after == rec.out.ms.interfaces.kernel_ifaces[n]
            IN  IF WrittenHolder(rec, n, is_v6)
                THEN NewlyWritten(rec, n, is_v6)
                ELSE IF is_absent(before.merged) THEN after = before
                ELSE IF PurgeExempt(rec, n)
                THEN /\ is_changed(after)
                     /\ ApplyDnsOf(rec.out.ms, n, is_v6)
                          = ApplyDnsOf(rec.input, n, is_v6)
                ELSE PurgedIn(rec, n, is_v6)

\* one previous holder is written again, another one, unchanged before the
\* call, is purged on a stack hoisted from its merged view
C16_Witness ==
    \E i \in PlacedCalls :
        LET rec == trace[i] IN
        /\ Eth1 \in InputHolders(rec, FALSE)
        /\ WrittenHolder(rec, Eth1, FALSE)
        /\ Eth2 \in InputHolders(rec, FALSE)
        /\ ~is_changed(rec.input.interfaces.kernel_ifaces[Eth2])
        /\ PurgedIn(rec, Eth2, FALSE)

\* the call went into placement: it ran the phases or refused the order
Entered(rec) == rec.out.ran \/ rec.out.ret = "NotImplementedError"

\* some current holder is not valid for DNS for a family it holds
SomeHolderInvalid(rec) ==
    \E is_v6 \in BOOLEAN : \E n \in InputHolders(rec, is_v6) :
        ~is_iface_valid_for_dns(rec.input.interfaces.kernel_ifaces[n], is_v6)

\* some changed current holder is not valid for DNS for a family it holds
SomeChangedHolderInvalid(rec) ==
    \E is_v6 \in BOOLEAN : \E n \in InputHolders(rec, is_v6) :
        /\ is_changed(rec.input.interfaces.kernel_ifaces[n])
        /\ ~is_iface_valid_for_dns(rec.input.interfaces.kernel_ifaces[n],
                                   is_v6)

\* the call returned Ok and left every view and flag as it was
LeftUntouched(rec) == rec.out.ret = "Ok" /\ rec.out.ms = rec.input

\* C17: store_dns_config_to_iface goes into placement exactly when the DNS
\* configuration changed or some current holder is not valid for DNS for the
\* family it holds; otherwise it returns Ok and changes no view and no flag.
C17_PlacementTrigger ==
    \A i \in ConfigCalls :
        /\ Entered(trace[i])
             <=> (trace[i].input.dns.is_changed \/ SomeHolderInvalid(trace[i]))
        /\ ~Entered(trace[i]) => LeftUntouched(trace[i])

\* C17 (amended): store_dns_config_to_iface goes into placement exactly when
\* the DNS configuration changed or some changed current holder is not valid
\* for DNS for the family it holds; it then runs the purge and write phases
\* unless the server order is refused; otherwise it returns Ok and changes
\* no view and no flag.
C17_PlacementTriggerChangedHolders ==
    \A i \in ConfigCalls :
        /\ Entered(trace[i])
             <=> (trace[i].input.dns.is_changed
                    \/ SomeChangedHolderInvalid(trace[i]))
        /\ trace[i].out.ran
             <=> (Entered(trace[i])
                    /\ ~(Len(trace[i].input.dns.servers) > 2
                           /\ is_mixed_dns_servers(trace[i].input.dns.servers)))
        /\ ~Entered(trace[i]) => LeftUntouched(trace[i])

\* the DNS configuration did not change and the phases ran because a changed
\* holder lost its IP stack
C17_Witness ==
    \E i \in ConfigCalls :
        /\ ~trace[i].input.dns.is_changed
        /\ trace[i].out.ran
        /\ trace[i].out.ms # trace[i].input

\* C18: two runs of the same placement call on identical inputs, insertion
\* order included, select the same holder for each family, also when several
\* current holders qualify at once.
C18_HolderDeterminism ==
    \A i, j \in 1..Len(trace) :
        (trace[i].fn = trace[j].fn /\ trace[i].input = trace[j].input) =>
            /\ trace[i].out.v4_iface = trace[j].out.v4_iface
            /\ trace[i].out.v6_iface = trace[j].out.v6_iface

\* the calls of store_dns_search_or_option_to_iface made so far
SearchCalls ==
    {i \in 1..Len(trace) :
        trace[i].fn = "store_dns_search_or_option_to_iface"}

\* the current holders of a family that are still valid for DNS
ValidHolders(rec, is_v6) ==
    {n \in InputHolders(rec, is_v6) :
        is_iface_valid_for_dns(rec.input.interfaces.kernel_ifaces[n], is_v6)}

\* the family to use on an interface with a stack of the wanted kind
FamilyOn(iface, want) == MergedStackIs(iface, TRUE, want)

\* positions of insert_order that name a kernel interface with a stack of
\* the wanted kind
DesiredWith(rec, want) ==
    LET K == rec.input.interfaces.kernel_ifaces
        order == rec.input.interfaces.insert_order
    IN  {p \in 1..Len(order) :
            /\ ~is_userspace(order[p][2]) /\ order[p][2] # "loopback"
            /\ order[p][1] \in FittingIfaces(K, want)}

\* unchanged interfaces of current state with a stack of the wanted kind
CurrentWith(rec, want) ==
    LET K == rec.input.interfaces.kernel_ifaces IN
    {n \in FittingIfaces(K, want) :
        /\ ~is_changed(K[n])
        /\ K[n].merged.iface_type # "loopback"
        /\ ~ReportedForeign(n)}

Target(n, is_v6) == [iface |-> n, is_v6 |-> is_v6]

TargetOn(rec, n, want) ==
    Target(n, FamilyOn(rec.input.interfaces.kernel_ifaces[n], want))

\* the stacks that the order (a) to (e) allows for the call
SearchTargets(rec) ==
    LET order == rec.input.interfaces.insert_order IN
    IF ValidHolders(rec, TRUE) # {}
    THEN {Target(n, TRUE) : n \in ValidHolders(rec, TRUE)}
    ELSE IF ValidHolders(rec, FALSE) # {}
    THEN {Target(n, FALSE) : n \in ValidHolders(rec, FALSE)}
    ELSE IF DesiredWith(rec, "auto") # {}
    THEN {TargetOn(rec, order[MinOf(DesiredWith(rec, "auto"))][1], "auto")}
    ELSE IF CurrentWith(rec, "auto") # {}
    THEN {TargetOn(rec, FirstByName(CurrentWith(rec, "auto")), "auto")}
    ELSE IF DesiredWith(rec, "enabled") # {}
    THEN {TargetOn(rec, order[MinOf(DesiredWith(rec, "enabled"))][1],
                   "enabled")}
    ELSE IF CurrentWith(rec, "enabled") # {}
    THEN {TargetOn(rec, FirstByName(CurrentWith(rec, "enabled")), "enabled")}
    ELSE {}

\* the stack of the call's choice carries the searches and options only
CarriesSearchOnly(rec) ==
    LET is_v6 == rec.out.v6_iface # <<>>
        n == HolderOf(rec.out, is_v6)
    IN  /\ n \in DOMAIN rec.out.ms.interfaces.kernel_ifaces
        /\ Target(n, is_v6) \in SearchTargets(rec)
        /\ ApplyDnsOf(rec.out.ms, n, is_v6)
             = Some(DnsClientState(Some(<<>>), Some(rec.input.dns.searches),
                                   Some(rec.input.dns.options), Some(40)))

\* C19: search/option-only placement picks the first match of (a) a current
\* IPv6 holder still valid, (b) a current IPv4 holder still valid, (c) an
\* auto interface in desired insertion order, IPv6 before IPv4, (d) an auto
\* interface of current state that is neither external-managed nor
\* unmanaged, (e) an IP-enabled interface, desired then current; it writes
\* no servers, all searches and options and priority 40 on that one stack,
\* and returns InvalidArgument when nothing matches.
C19_SearchOnlyPlacement ==
    \A i \in SearchCalls :
        IF SearchTargets(trace[i]) = {}
        THEN trace[i].out.ret = "InvalidArgument"
        ELSE trace[i].out.ret = "Ok" /\ CarriesSearchOnly(trace[i])

----------------------------------------------------------------------------
(* Properties of the IPv6 token, checked under SpecSanitize *)

\* the first sanitize of an IPv6 stack whose token parses with its leading
\* 64 bits zero has returned Ok
TokenSanitized ==
    /\ trace # <<>>
    /\ stack0.fam = 6
    /\ IsSome(stack0.ip.token)
    /\ Unwrap(stack0.ip.token) # <<>>
    /\ IsSome(Ipv6Addr_from_str(Unwrap(stack0.ip.token)))
    /\ \A i \in 1..4 : Unwrap(Ipv6Addr_from_str(Unwrap(stack0.ip.token)))[i] = 0
    /\ trace[1].ret = "Ok"

StoredToken == Unwrap(trace[1].ip.token)

\* C21: a token that parses as an IPv6 address with its leading 64 bits
\* zero is stored in colon-hex form (no dotted quad), the stored text is a
\* valid IPv6 address with the same trailing 64 bits, and sanitizing the
\* stored text again succeeds and returns the same text.
C21_TokenCanonical ==
    TokenSanitized =>
        /\ \A i \in 1..Len(StoredToken) : StoredToken[i].k # "quad"
        /\ IsSome(Ipv6Addr_from_str(StoredToken))
        /\ Ipv6Addr_from_str(StoredToken)
               = Ipv6Addr_from_str(Unwrap(stack0.ip.token))
        /\ sanitize_ipv6_token_to_string(StoredToken)
               = [token |-> StoredToken, ret |-> "Ok"]

----------------------------------------------------------------------------
(* SpecVerify: verification of the addresses of one family of one         *)
(* interface against the post-apply state                                  *)

\* two addresses are the same address when ip and prefix length agree
SameAddr(a, b) == a.ip = b.ip /\ a.prefix_length = b.prefix_length

HasAddr(addrs, a) == \E i \in 1..Len(addrs) : SameAddr(addrs[i], a)

\* a verify address the post-apply list lacks
MissingAddrs(verify_addrs, cur_addrs) ==
    {i \in 1..Len(verify_addrs) : ~HasAddr(cur_addrs, verify_addrs[i])}

\* the same with finite lifetimes counted as extra too
ExtraAddrsCountingAuto(verify_addrs, cur_addrs) ==
    {i \in 1..Len(cur_addrs) : ~HasAddr(verify_addrs, cur_addrs[i])}

\* post-apply addresses that count as extra: not in the verify view and
\* without a finite lifetime
ExtraAddrs(verify_addrs, cur_addrs) ==
    {i \in 1..Len(cur_addrs) :
        /\ ~HasAddr(verify_addrs, cur_addrs[i])
        /\ ~InterfaceIpAddr_is_auto(cur_addrs[i])}

\* extras never looked at
ExtrasAlwaysAllowed(verify_ip, cur_addrs) ==
    IF IsNone(verify_ip.addresses) THEN "Ok"
    ELSE IF MissingAddrs(Unwrap(verify_ip.addresses), cur_addrs) # {}
    THEN "VerificationError"
    ELSE "Ok"

\* the address part of the verification of one family
verify_addresses(verify_ip, cur_addrs) ==
    IF IsNone(verify_ip.addresses) THEN "Ok"
    ELSE IF MissingAddrs(Unwrap(verify_ip.addresses), cur_addrs) # {}
    THEN "VerificationError"
    ELSE IF /\ ~verify_ip.allow_extra_address
            /\ ExtraAddrs(Unwrap(verify_ip.addresses), cur_addrs) # {}
    THEN "VerificationError"
    ELSE "Ok"

\* 192.0.2.5/24 and 192.0.2.7/24 as a for_verify view holds them
VerifyAddrs4 == {
    InterfaceIpAddr(V4(192, 0, 2, 5), 24, None, None, None),
    InterfaceIpAddr(V4(192, 0, 2, 7), 24, None, None, None) }

\* the same two as the kernel reports them, and 192.0.2.9/24 from DHCP
PostApplyAddrs4 == {
    InterfaceIpAddr(V4(192, 0, 2, 5), 24, None, Some(FOREVER), Some(FOREVER)),
    Addr4Forever, Addr4Auto }

\* 2001:db8::1/64 and 2001:db8::7/64 as a for_verify view holds them
VerifyAddrs6 == {
    InterfaceIpAddr(V6(Seg2001 \o <<1>>), 64, None, None, None),
    InterfaceIpAddr(V6(Seg2001 \o <<7>>), 64, None, None, None) }

\* the same two as the kernel reports them, and 2001:db8::9/64 from an RA
PostApplyAddrs6 == {
    InterfaceIpAddr(V6(Seg2001 \o <<1>>), 64, None, Some(FOREVER), Some(FOREVER)),
    InterfaceIpAddr(V6(Seg2001 \o <<7>>), 64, None, Some(FOREVER), Some(FOREVER)),
    Addr6Auto }

VerifyViews(universe) ==
    {[addresses |-> a, allow_extra_address |-> x] :
        a \in OptAddrs(universe), x \in BOOLEAN}

InitVerify ==
    /\ pc = "verify"
    /\ \/ /\ for_verify \in VerifyViews(VerifyAddrs4)
          /\ current \in SeqsUpTo(PostApplyAddrs4, MaxAddrs)
       \/ /\ for_verify \in VerifyViews(VerifyAddrs6)
          /\ current \in SeqsUpTo(PostApplyAddrs6, MaxAddrs)
    /\ ret = Unused
    /\ is_desired = Unused /\ stack0 = Unused /\ stack = Unused
    /\ trace = <<>> /\ desired = Unused /\ for_apply = Unused /\ dns = Unused
    /\ merged_state = Unused /\ nm_acs = Unused /\ nm_devs = Unused

VerifyAddresses ==
    /\ pc = "verify"
    /\ ret = Unused
    /\ ret' = verify_addresses(for_verify, current)
    /\ pc' = "done"
    /\ UNCHANGED <<is_desired, stack0, stack, trace, desired, current,
                   for_apply, for_verify, dns, merged_state, nm_acs, nm_devs>>

NextVerify == VerifyAddresses

SpecVerify == InitVerify /\ [][NextVerify]_vars

----------------------------------------------------------------------------
(* Properties of the verification, checked under SpecVerify *)

Verified == pc = "done" /\ IsSome(for_verify.addresses)

\* the two lists hold the same addresses (order and repetition aside)
ExactlyEqual(verify_addrs, cur_addrs) ==
    /\ \A i \in 1..Len(verify_addrs) : HasAddr(cur_addrs, verify_addrs[i])
    /\ \A i \in 1..Len(cur_addrs) : HasAddr(verify_addrs, cur_addrs[i])

----------------------------------------------------------------------------
(* sanitize_ip_network: an "ip" or "ip/prefix" text, as the lexical pieces *)
(* of the address and the texts that follow each '/'                        *)

DecDigits == SubSeq(HexDigits, 1, 10)

IsDecDigit(c) == \E i \in 1..10 : DecDigits[i] = c

\* str::parse::<usize>: an optional '+', then one or more decimal digits
ParsesAsUsize(txt) ==
    LET digits == IF txt # <<>> /\ txt[1] = "+" THEN Tail(txt) ELSE txt
    IN  digits # <<>> /\ \A i \in 1..Len(digits) : IsDecDigit(digits[i])

RECURSIVE DecValue(_)
DecValue(s) ==
    IF s = <<>> THEN 0
    ELSE DecValue(SubSeq(s, 1, Len(s) - 1)) * 10 + HexDigitValue(s[Len(s)])

ParseUsize(txt) == DecValue(IF txt[1] = "+" THEN Tail(txt) ELSE txt)

\* std::net::IpAddr::from_str: the IPv4 parser, then the IPv6 parser
IpAddr_from_str(pieces) ==
    IF Len(pieces) = 1 /\ pieces[1].k = "quad"
    THEN IF \A i \in 1..4 : pieces[1].v[i] <= 255
         THEN Some(V4(pieces[1].v[1], pieces[1].v[2],
                      pieces[1].v[3], pieces[1].v[4]))
         ELSE None
    ELSE IF IsSome(Ipv6Addr_from_str(pieces))
    THEN Some(V6(Unwrap(Ipv6Addr_from_str(pieces))))
    ELSE None

\* Display of std::net::IpAddr
IpAddr_to_string(ip) ==
    IF is_ipv6(ip) THEN Ipv6Addr_to_string(ip.parts)
    ELSE <<Quad(ip.parts[1], ip.parts[2], ip.parts[3], ip.parts[4])>>

RECURSIVE Pow2(_)
Pow2(n) == IF n = 0 THEN 1 ELSE 2 * Pow2(n - 1)

\* the part of x & (MAX << shift) that falls into the unit (octet or 16 bit
\* segment) number i of units of w bits, the address being total bits wide
MaskUnit(x, i, w, total, shift) ==
    LET low == total - i * w      \* bits of the address below this unit
    IN  IF shift <= low THEN x
        ELSE IF shift >= low + w THEN 0
        ELSE x - (x % Pow2(shift - low))

\* the same with the shift taken as the prefix length
apply_ip_prefix_len_shift_by_prefix(ip, prefix_length) ==
    IF prefix_length = 0
    THEN IF is_ipv6(ip) THEN V6(Zeros(8)) ELSE V4(0, 0, 0, 0)
    ELSE IF \/ is_ipv6(ip) /\ prefix_length >= IPV6_ADDR_LEN
            \/ is_ipv4(ip) /\ prefix_length >= IPV4_ADDR_LEN
    THEN ip
    ELSE IF is_ipv6(ip)
    THEN V6([i \in 1..8 |->
                MaskUnit(ip.parts[i], i, 16, IPV6_ADDR_LEN, prefix_length)])
    ELSE [v |-> 4, parts |-> [i \in 1..4 |->
                MaskUnit(ip.parts[i], i, 8, IPV4_ADDR_LEN, prefix_length)]]

\* apply_ip_prefix_len
apply_ip_prefix_len(ip, prefix_length) ==
    IF prefix_length = 0
    THEN IF is_ipv6(ip) THEN V6(Zeros(8)) ELSE V4(0, 0, 0, 0)
    ELSE IF \/ is_ipv6(ip) /\ prefix_length >= IPV6_ADDR_LEN
            \/ is_ipv4(ip) /\ prefix_length >= IPV4_ADDR_LEN
    THEN ip
    ELSE IF is_ipv6(ip)
    THEN V6([i \in 1..8 |->
                MaskUnit(ip.parts[i], i, 16, IPV6_ADDR_LEN,
                         IPV6_ADDR_LEN - prefix_length)])
    ELSE [v |-> 4, parts |-> [i \in 1..4 |->
                MaskUnit(ip.parts[i], i, 8, IPV4_ADDR_LEN,
                         IPV4_ADDR_LEN - prefix_length)]]

\* an "ip/prefix" text
IpNet(ip_pieces, after_slashes) == [ip |-> ip_pieces, rest |-> after_slashes]

IpNetErr(ip_net, kind) == [out |-> ip_net, ret |-> kind]

IpNetOk(ip, prefix_len) ==
    [out |-> IpNet(IpAddr_to_string(ip), <<DecChars(prefix_len)>>),
     ret |-> "Ok"]

\* ip.rs 1312-1348: the two-part case, the address having parsed
SanitizeIpWithPrefix(ip_net, parsed, prefix_len) ==
    IF is_ipv6(parsed)
    THEN IF prefix_len > IPV6_ADDR_LEN THEN IpNetErr(ip_net, "InvalidArgument")
         ELSE IpNetOk(apply_ip_prefix_len(parsed, prefix_len), prefix_len)
    ELSE IF prefix_len > IPV4_ADDR_LEN THEN IpNetErr(ip_net, "InvalidArgument")
         ELSE IpNetOk(apply_ip_prefix_len(parsed, prefix_len), prefix_len)

\* sanitize_ip_network: the text returned and the result
sanitize_ip_network(ip_net) ==
    IF Len(ip_net.rest) = 0
    THEN IF IsNone(IpAddr_from_str(ip_net.ip))
         THEN IpNetErr(ip_net, "InvalidArgument")
         ELSE IF is_ipv6(Unwrap(IpAddr_from_str(ip_net.ip)))
         THEN IpNetOk(Unwrap(IpAddr_from_str(ip_net.ip)), IPV6_ADDR_LEN)
         ELSE IpNetOk(Unwrap(IpAddr_from_str(ip_net.ip)), IPV4_ADDR_LEN)
    ELSE IF Len(ip_net.rest) = 1
    THEN IF ~ParsesAsUsize(ip_net.rest[1])
         THEN IpNetErr(ip_net, "InvalidArgument")
         ELSE IF IsNone(IpAddr_from_str(ip_net.ip))
         THEN IpNetErr(ip_net, "AddrParseError")
         ELSE SanitizeIpWithPrefix(ip_net, Unwrap(IpAddr_from_str(ip_net.ip)),
                                   ParseUsize(ip_net.rest[1]))
    ELSE IpNetErr(ip_net, "InvalidArgument")

\* the address texts "192.0.2.255", "10.129.3.7", "2001:db8::ffff",
\* "FE80::1" (as lexed), "::ffff:1.2.3.4",
\* "ffff:ffff:ffff:ffff:ffff:ffff:ffff:ffff", "1.2.3.256" and "1::2::3"
IpTexts == {
    <<Quad(192, 0, 2, 255)>>,
    <<Quad(10, 129, 3, 7)>>,
    <<Hex(8193), Colon, Hex(3512), Colon, Colon, Hex(65535)>>,
    <<Hex(65152), Colon, Colon, Hex(1)>>,
    <<Colon, Colon, Hex(65535), Colon, Quad(1, 2, 3, 4)>>,
    <<Hex(65535), Colon, Hex(65535), Colon, Hex(65535), Colon, Hex(65535),
      Colon, Hex(65535), Colon, Hex(65535), Colon, Hex(65535), Colon,
      Hex(65535)>>,
    <<Quad(1, 2, 3, 256)>>,
    <<Hex(1), Colon, Colon, Hex(2), Colon, Colon, Hex(3)>> }

\* the prefix texts, among them "024", "+8", "-1", "" and "x"
PrefixTexts ==
    {DecChars(n) : n \in {0, 1, 7, 8, 9, 17, 25, 31, 32, 33, 48, 63, 64, 65,
                          127, 128, 129}}
    \cup {<<"0", "2", "4">>, <<"+", "8">>, <<"-", "1">>, <<>>, <<"x">>}

IpNetInputs ==
    {IpNet(ip, <<>>) : ip \in IpTexts}
    \cup {IpNet(ip, <<p>>) : ip \in IpTexts, p \in PrefixTexts}
    \cup {IpNet(ip, <<<<"2", "4">>, <<"8">>>>) : ip \in IpTexts}

InitIpNetwork ==
    /\ pc = "ip_network"
    /\ stack0 \in IpNetInputs
    /\ stack = stack0
    /\ trace = <<>>
    /\ ret = Unused
    /\ is_desired = Unused /\ desired = Unused /\ current = Unused
    /\ for_apply = Unused /\ for_verify = Unused /\ dns = Unused
    /\ merged_state = Unused /\ nm_acs = Unused /\ nm_devs = Unused

\* sanitize_ip_network on the text at hand; a caller stops at the first error
SanitizeIpNetwork ==
    /\ pc = "ip_network"
    /\ Len(trace) < MaxSanitizeCalls
    /\ (trace # <<>> => ret = "Ok")
    /\ stack' = sanitize_ip_network(stack).out
    /\ ret' = sanitize_ip_network(stack).ret
    /\ trace' = Append(trace, sanitize_ip_network(stack))
    /\ UNCHANGED <<pc, is_desired, stack0, desired, current, for_apply,
                   for_verify, dns, merged_state, nm_acs, nm_devs>>

NextIpNetwork == SanitizeIpNetwork

SpecIpNetwork == InitIpNetwork /\ [][NextIpNetwork]_vars

----------------------------------------------------------------------------
(* Properties of sanitize_ip_network, checked under SpecIpNetwork *)

FamilyBits(ip) == IF is_ipv6(ip) THEN IPV6_ADDR_LEN ELSE IPV4_ADDR_LEN

UnitBits(ip) == IF is_ipv6(ip) THEN 16 ELSE 8

\* bit j of the address, bit 1 being the most significant
AddrBit(ip, j) ==
    (ip.parts[((j - 1) \div UnitBits(ip)) + 1]
        \div Pow2(UnitBits(ip) - 1 - ((j - 1) % UnitBits(ip)))) % 2

\* out is a text of the address ip with every bit beyond the first p cleared,
\* followed by the prefix length p in decimal
IsMaskedText(out, ip, p) ==
    /\ out.rest = <<DecChars(p)>>
    /\ IsSome(IpAddr_from_str(out.ip))
    /\ Unwrap(IpAddr_from_str(out.ip)).v = ip.v
    /\ \A j \in 1..FamilyBits(ip) :
          AddrBit(Unwrap(IpAddr_from_str(out.ip)), j)
              = IF j <= p THEN AddrBit(ip, j) ELSE 0

InputIp == Unwrap(IpAddr_from_str(stack0.ip))

\* the first call was made on a text whose address part is an address and
\* whose prefix part, if any, is a number
IpNetworkSanitized ==
    /\ pc = "ip_network"
    /\ trace # <<>>
    /\ IsSome(IpAddr_from_str(stack0.ip))
    /\ Len(stack0.rest) <= 1
    /\ (Len(stack0.rest) = 1 => ParsesAsUsize(stack0.rest[1]))

\* C23: without a prefix the result is ip/32 or ip/128; with a prefix p within
\* the family width the result is the address with every bit beyond the first
\* p cleared, followed by /p; a prefix beyond the family width is
\* InvalidArgument; the function applied to its own output returns it again.
C23_CidrCanonical ==
    IpNetworkSanitized =>
        /\ Len(stack0.rest) = 0 =>
              /\ trace[1].ret = "Ok"
              /\ IsMaskedText(trace[1].out, InputIp, FamilyBits(InputIp))
        /\ (/\ Len(stack0.rest) = 1
            /\ ParseUsize(stack0.rest[1]) <= FamilyBits(InputIp)) =>
              /\ trace[1].ret = "Ok"
              /\ IsMaskedText(trace[1].out, InputIp, ParseUsize(stack0.rest[1]))
        /\ (/\ Len(stack0.rest) = 1
            /\ ParseUsize(stack0.rest[1]) > FamilyBits(InputIp)) =>
              trace[1].ret = "InvalidArgument"
        /\ (Len(trace) = 2) =>
              trace[2] = [out |-> trace[1].out, ret |-> "Ok"]

\* 2001:db8::ffff/127 became 2001:db8::fffe/127, and came back unchanged from
\* a second call
C23_Witness ==
    /\ IpNetworkSanitized
    /\ Len(trace) = 2
    /\ stack0 = IpNet(<<Hex(8193), Colon, Hex(3512), Colon, Colon, Hex(65535)>>,
                      <<DecChars(127)>>)
    /\ stack = IpNet(<<Hex(8193), Colon, Hex(3512), Colon, Colon, Hex(65534)>>,
                     <<DecChars(127)>>)

----------------------------------------------------------------------------
(* SpecDeserialize: an ipv4 or ipv6 section of the user's input, as the    *)
(* set of its keys, deserialized to a stack                                 *)

MaxKeys == 2

\* struct InterfaceIp: the keys the schema accepts and the field each sets
IpKeys ==
    {"enabled", "dhcp", "autoconf", "dhcp-client-id", "dhcp-duid", "address",
     "auto-dns", "auto-gateway", "auto-routes", "auto-route-table-id",
     "auto-route-metric", "addr-gen-mode", "allow-extra-address", "token",
     "dhcp-send-hostname", "dhcp-custom-hostname"}

FieldOfKey(key) ==
    CASE key = "enabled" -> "enabled"
      [] key = "dhcp" -> "dhcp"
      [] key = "autoconf" -> "autoconf"
      [] key = "dhcp-client-id" -> "dhcp_client_id"
      [] key = "dhcp-duid" -> "dhcp_duid"
      [] key = "address" -> "addresses"
      [] key = "auto-dns" -> "auto_dns"
      [] key = "auto-gateway" -> "auto_gateway"
      [] key = "auto-routes" -> "auto_routes"
      [] key = "auto-route-table-id" -> "auto_table_id"
      [] key = "auto-route-metric" -> "auto_route_metric"
      [] key = "addr-gen-mode" -> "addr_gen_mode"
      [] key = "allow-extra-address" -> "allow_extra_address"
      [] key = "token" -> "token"
      [] key = "dhcp-send-hostname" -> "dhcp_send_hostname"
      [] key = "dhcp-custom-hostname" -> "dhcp_custom_hostname"

\* the keys get_ip_prop_list looks for, in its order
PropListKeys ==
    <<"enabled", "dhcp", "autoconf", "dhcp-client-id", "dhcp-duid", "address",
      "auto-dns", "auto-gateway", "auto-routes", "auto-route-table-id",
      "addr-gen-mode", "dhcp-send-hostname", "dhcp-custom-hostname">>

\* get_ip_prop_list, from its i-th test on
RECURSIVE PropListFrom(_, _)
PropListFrom(map, i) ==
    IF i > Len(PropListKeys) THEN <<>>
    ELSE (IF PropListKeys[i] \in map THEN <<FieldOfKey(PropListKeys[i])>>
          ELSE <<>>) \o PropListFrom(map, i + 1)

get_ip_prop_list(map) == PropListFrom(map, 1)

InProps(prop_list, field) == \E i \in 1..Len(prop_list) : prop_list[i] = field

DeserializeResult(prop_list, result) == [prop_list |-> prop_list, ret |-> result]

\* serde_json::from_value::<InterfaceIp>, deny_unknown_fields
InterfaceIp_from_value(map) == IF map \subseteq IpKeys THEN "Ok" ELSE "Err"

\* Deserialize for InterfaceIpv4
InterfaceIpv4_deserialize(map) ==
    IF InProps(get_ip_prop_list(map), "autoconf") THEN DeserializeResult(<<>>, "Err")
    ELSE IF InProps(get_ip_prop_list(map), "dhcp_duid")
    THEN DeserializeResult(<<>>, "Err")
    ELSE IF InterfaceIp_from_value(map) # "Ok" THEN DeserializeResult(<<>>, "Err")
    ELSE DeserializeResult(get_ip_prop_list(map), "Ok")

\* Deserialize for InterfaceIpv6
InterfaceIpv6_deserialize(map) ==
    IF InProps(get_ip_prop_list(map), "dhcp_client_id")
    THEN DeserializeResult(<<>>, "Err")
    ELSE IF InterfaceIp_from_value(map) # "Ok" THEN DeserializeResult(<<>>, "Err")
    ELSE DeserializeResult(get_ip_prop_list(map), "Ok")

\* the key sets of the sections tried: a few keys, all of them, or an
\* unknown key
KeySets ==
    {m \in SUBSET (IpKeys \cup {"mtu"}) : Cardinality(m) <= MaxKeys}
    \cup {IpKeys \ {"autoconf", "dhcp-duid"}, IpKeys \ {"dhcp-client-id"}}

InitDeserialize ==
    /\ pc = "deserialize"
    /\ stack0 \in {[fam |-> f, map |-> m] : f \in {4, 6}, m \in KeySets}
    /\ stack = Unused
    /\ ret = Unused
    /\ trace = <<>>
    /\ is_desired = Unused /\ desired = Unused /\ current = Unused
    /\ for_apply = Unused /\ for_verify = Unused /\ dns = Unused
    /\ merged_state = Unused /\ nm_acs = Unused /\ nm_devs = Unused

DeserializeIpv4 ==
    /\ pc = "deserialize"
    /\ stack0.fam = 4
    /\ stack' = InterfaceIpv4_deserialize(stack0.map)
    /\ ret' = InterfaceIpv4_deserialize(stack0.map).ret
    /\ pc' = "done"
    /\ UNCHANGED <<is_desired, stack0, trace, desired, current, for_apply,
                   for_verify, dns, merged_state, nm_acs, nm_devs>>

DeserializeIpv6 ==
    /\ pc = "deserialize"
    /\ stack0.fam = 6
    /\ stack' = InterfaceIpv6_deserialize(stack0.map)
    /\ ret' = InterfaceIpv6_deserialize(stack0.map).ret
    /\ pc' = "done"
    /\ UNCHANGED <<is_desired, stack0, trace, desired, current, for_apply,
                   for_verify, dns, merged_state, nm_acs, nm_devs>>

NextDeserialize == DeserializeIpv4 \/ DeserializeIpv6

SpecDeserialize == InitDeserialize /\ [][NextDeserialize]_vars

----------------------------------------------------------------------------
(* Properties of the deserialization, checked under SpecDeserialize *)

\* C24: after a section is deserialized, prop_list names exactly the stack
\* fields whose keys were present in the input, token, auto-route-metric and
\* allow-extra-address included.
C24_PropListComplete ==
    (pc = "done" /\ ret = "Ok") =>
        {stack.prop_list[i] : i \in 1..Len(stack.prop_list)}
            = {FieldOfKey(k) : k \in stack0.map}

----------------------------------------------------------------------------
(* Properties of merge_ip, checked under Spec *)

\* the step that runs merge_ip on the stacks both sides have
MergeIpStep == pc = "sanitized" /\ pc' # "sanitized" /\ IsSome(current)

MergeIpFrame == {"enabled", "dhcp", "autoconf", "addresses"}

\* self before and after merge_ip(cur), as the claim relates them
InheritedFrom(before, after, cur) ==
    /\ after.enabled = IF "enabled" \notin before.prop_list THEN cur.enabled
                       ELSE before.enabled
    /\ after.dhcp = IF IsNone(before.dhcp) /\ after.enabled THEN cur.dhcp
                    ELSE before.dhcp
    /\ "autoconf" \in DOMAIN before =>
          after.autoconf = IF IsNone(before.autoconf) /\ after.enabled
                           THEN cur.autoconf ELSE before.autoconf
    /\ \A f \in DOMAIN before \ MergeIpFrame : after[f] = before[f]

MergedStacksInherit(before, after, cur) ==
    /\ (IsSome(before.ipv4) /\ IsSome(cur.ipv4)) =>
          InheritedFrom(Unwrap(before.ipv4), Unwrap(after.ipv4), Unwrap(cur.ipv4))
    /\ (IsSome(before.ipv6) /\ IsSome(cur.ipv6)) =>
          InheritedFrom(Unwrap(before.ipv6), Unwrap(after.ipv6), Unwrap(cur.ipv6))

\* C25: after merge_ip(current), enabled is current's when "enabled" is not in
\* prop_list and unchanged otherwise; dhcp (and autoconf on IPv6) is current's
\* when it was None and the stack is enabled after the first step, and
\* unchanged otherwise; no field besides enabled, dhcp, autoconf and addresses
\* is modified.
C25_MergeIpInheritance ==
    [][MergeIpStep =>
         /\ MergedStacksInherit(for_apply, for_apply', Unwrap(current))
         /\ MergedStacksInherit(for_verify, for_verify', Unwrap(current))]_vars

\* an IPv6 stack that named neither enabled, dhcp nor autoconf took all three
\* from an enabled current stack
C25_Witness ==
    /\ pc = "merged"
    /\ IsSome(current) /\ IsSome(Unwrap(current).ipv6) /\ IsSome(desired.ipv6)
    /\ "enabled" \notin Unwrap(desired.ipv6).prop_list
    /\ ~Unwrap(desired.ipv6).enabled
    /\ IsNone(Unwrap(desired.ipv6).dhcp)
    /\ IsNone(Unwrap(desired.ipv6).autoconf)
    /\ Unwrap(for_apply.ipv6).enabled
    /\ Unwrap(for_apply.ipv6).dhcp = Some(FALSE)
    /\ Unwrap(for_apply.ipv6).autoconf = Some(TRUE)

----------------------------------------------------------------------------
(* Properties of the non-auto clears, checked under SpecSanitize *)

SanitizedOk == trace # <<>> /\ trace[1].ret = "Ok"

SanitizedIsAuto ==
    IF stack0.fam = 4 THEN InterfaceIpv4_is_auto(trace[1].ip)
    ELSE InterfaceIpv6_is_auto(trace[1].ip)

ClearedWhenNotAuto ==
    {"auto_dns", "auto_gateway", "auto_routes", "auto_table_id",
     "auto_route_metric", "dhcp_send_hostname", "dhcp_custom_hostname"}
    \cup (IF stack0.fam = 4 THEN {"dhcp_client_id"} ELSE {"dhcp_duid"})

\* C26: after sanitize returns Ok on a stack that is not auto, auto_dns,
\* auto_gateway, auto_routes, auto_table_id, auto_route_metric,
\* dhcp_send_hostname and dhcp_custom_hostname are None, and so is
\* dhcp_client_id (IPv4) or dhcp_duid (IPv6); on an auto stack auto_dns,
\* auto_routes and auto_gateway are never None, explicit values being kept.
C26_NonAutoClears ==
    SanitizedOk =>
        /\ ~SanitizedIsAuto =>
              \A f \in ClearedWhenNotAuto : IsNone(trace[1].ip[f])
        /\ SanitizedIsAuto =>
              \A f \in {"auto_dns", "auto_routes", "auto_gateway"} :
                  trace[1].ip[f] = DefaultTrue(stack0.ip[f])

----------------------------------------------------------------------------
(* Frame of the DNS placement, checked under SpecPlacement *)

IfacesIn(ms) == ms.interfaces.kernel_ifaces

WithoutDns(stack_opt) ==
    IF IsSome(stack_opt) THEN Some([Unwrap(stack_opt) EXCEPT !.dns = None])
    ELSE None

\* a stack of the for_apply view after the call: the one it was, or the one
\* hoisted from the merged view, with any dns slot
StackWithinFrame(before_opt, after_opt, merged_opt) ==
    \/ after_opt = before_opt
    \/ IsSome(after_opt) /\ WithoutDns(after_opt) = WithoutDns(before_opt)
    \/ /\ IsNone(before_opt) /\ IsSome(after_opt)
       /\ WithoutDns(after_opt) = WithoutDns(merged_opt)

ViewWithinFrame(before, after, merged) ==
    /\ \A f \in DOMAIN before \ {"ipv4", "ipv6"} : after[f] = before[f]
    /\ StackWithinFrame(before.ipv4, after.ipv4, merged.ipv4)
    /\ StackWithinFrame(before.ipv6, after.ipv6, merged.ipv6)

\* for_apply of one interface after the call: changed only in its IP stacks,
\* or created by marking the interface changed
ForApplyWithinFrame(before, after) ==
    IF IsSome(before.for_apply)
    THEN /\ IsSome(after.for_apply)
         /\ ViewWithinFrame(Unwrap(before.for_apply), Unwrap(after.for_apply),
                            before.merged)
    ELSE \/ IsNone(after.for_apply)
         \/ /\ IsSome(after.for_apply) /\ IsSome(before.current)
            /\ ViewWithinFrame(clone_name_type_only(Unwrap(before.current)),
                               Unwrap(after.for_apply), before.merged)

CallWithinFrame(before, after) ==
    /\ after.dns = before.dns
    /\ after.interfaces.insert_order = before.interfaces.insert_order
    /\ DOMAIN IfacesIn(after) = DOMAIN IfacesIn(before)
    /\ \A n \in DOMAIN IfacesIn(before) :
          /\ IfacesIn(after)[n].desired = IfacesIn(before)[n].desired
          /\ IfacesIn(after)[n].current = IfacesIn(before)[n].current
          /\ IfacesIn(after)[n].merged = IfacesIn(before)[n].merged
          /\ is_changed(IfacesIn(before)[n]) => is_changed(IfacesIn(after)[n])
          /\ ForApplyWithinFrame(IfacesIn(before)[n], IfacesIn(after)[n])

FailedConfigCalls ==
    {k \in 1..Len(trace) :
        /\ trace[k].fn = "store_dns_config_to_iface"
        /\ trace[k].out.ret # "Ok"}

\* C28: whenever store_dns_config_to_iface returns an error
\* (NotImplementedError, InvalidArgument or Bug), no interface's for_apply
\* view has been modified and no interface has been newly marked changed.
C28_AllOrNothing ==
    \A k \in FailedConfigCalls :
        \A n \in DOMAIN IfacesIn(trace[k].input) :
            /\ IfacesIn(trace[k].out.ms)[n].for_apply
                   = IfacesIn(trace[k].input)[n].for_apply
            /\ is_changed(IfacesIn(trace[k].out.ms)[n])
                   = is_changed(IfacesIn(trace[k].input)[n])

----------------------------------------------------------------------------
(* SpecController: set_controller_type on the interfaces of a kernel query *)

\* an interface of the query, reduced to what set_controller_type reads and
\* writes, and one field it has no business with
KernelIface(iface_type, controller, controller_type, mtu) ==
    [iface_type |-> iface_type, controller |-> controller,
     controller_type |-> controller_type, mtu |-> mtu]

ControllerTypes == {"bond", "linux-bridge", "ovs-bridge", "vrf"}

\* Interface::is_controller
is_controller(iface) == iface.iface_type \in ControllerTypes

\* the same entering every interface, controller or not
ctrl_to_type_of_all(ifaces) ==
    [n \in DOMAIN ifaces |-> ifaces[n].iface_type]

\* show.rs 156-162: the name of every controller, with its type
ctrl_to_type(ifaces) ==
    [n \in {m \in DOMAIN ifaces : is_controller(ifaces[m])} |->
        ifaces[n].iface_type]

\* show.rs 163-170 for one interface
SetOneControllerType(iface, ctrls) ==
    IF IsSome(iface.controller) /\ Unwrap(iface.controller) \in DOMAIN ctrls
    THEN [iface EXCEPT !.controller_type = Some(ctrls[Unwrap(iface.controller)])]
    ELSE iface

set_controller_type(ifaces) ==
    [n \in DOMAIN ifaces |-> SetOneControllerType(ifaces[n], ctrl_to_type(ifaces))]

QueryNames == {"br0", "eth1", "eth2"}

\* what np_iface_to_base_iface may have left in one interface; "ovs-system"
\* is a controller the query skips
QueryIfaces(name) ==
    {KernelIface(t, c, ct, 1500) :
        t \in {"linux-bridge", "bond", "ethernet"},
        c \in {None, Some("ovs-system")}
              \cup {Some(n) : n \in QueryNames \ {name}},
        ct \in {None, Some("ovs-bridge")}}

InitController ==
    /\ pc = "retrieved"
    /\ \E b \in QueryIfaces("br0"), e1 \in QueryIfaces("eth1"),
          e2 \in QueryIfaces("eth2") :
         stack0 = ("br0" :> b) @@ ("eth1" :> e1) @@ ("eth2" :> e2)
    /\ stack = stack0
    /\ ret = Unused /\ trace = <<>>
    /\ is_desired = Unused /\ desired = Unused /\ current = Unused
    /\ for_apply = Unused /\ for_verify = Unused /\ dns = Unused
    /\ merged_state = Unused /\ nm_acs = Unused /\ nm_devs = Unused

SetControllerType ==
    /\ pc = "retrieved"
    /\ stack' = set_controller_type(stack)
    /\ pc' = "done"
    /\ UNCHANGED <<is_desired, stack0, trace, ret, desired, current,
                   for_apply, for_verify, dns, merged_state, nm_acs, nm_devs>>

NextController == SetControllerType

SpecController == InitController /\ [][NextController]_vars

----------------------------------------------------------------------------
(* Properties of the kernel query, checked under SpecController *)

NamesController(iface) ==
    /\ IsSome(iface.controller)
    /\ Unwrap(iface.controller) \in DOMAIN stack0
    /\ is_controller(stack0[Unwrap(iface.controller)])

\* C29: after set_controller_type, an interface whose controller names a
\* controller interface of the retrieved set has that controller's type as
\* controller_type; any other interface keeps its controller_type; no other
\* field of any interface is modified.
C29_ControllerTypeResolved ==
    pc = "done" =>
        /\ DOMAIN stack = DOMAIN stack0
        /\ \A n \in DOMAIN stack0 :
              /\ stack[n].controller_type =
                    IF NamesController(stack0[n])
                    THEN Some(stack0[Unwrap(stack0[n].controller)].iface_type)
                    ELSE stack0[n].controller_type
              /\ \A f \in DOMAIN stack0[n] \ {"controller_type"} :
                    stack[n][f] = stack0[n][f]

\* eth1 is a port of the bond br0 and got its type, while eth2, whose
\* controller eth1 is no controller, kept the type it had
C29_Witness ==
    /\ pc = "done"
    /\ stack0["br0"].iface_type = "bond"
    /\ stack0["eth1"].controller = Some("br0")
    /\ stack0["eth1"].controller_type = Some("ovs-bridge")
    /\ stack["eth1"].controller_type = Some("bond")
    /\ stack0["eth2"].controller = Some("eth1")
    /\ stack["eth2"].controller_type = Some("ovs-bridge")

----------------------------------------------------------------------------
(* SpecNmConnection: the "connection" setting of a NetworkManager profile  *)
(* parsed from its D-Bus dictionary and written back                        *)

NM_AUTOCONENCT_PORT_DEFAULT == -1
NM_AUTOCONENCT_PORT_YES == 1
NM_AUTOCONENCT_PORT_NO == 0

\* _from_map!(v, key, conv): the value removed from the dictionary, if any
FromMap(v, key) == IF key \in DOMAIN v THEN Some(v[key]) ELSE None

WithoutKeys(v, keys) == [k \in DOMAIN v \ keys |-> v[k]]

\* NmSettingConnection::i32_to_autoconnect_ports
i32_to_autoconnect_ports(val) ==
    IF val = Some(NM_AUTOCONENCT_PORT_YES) THEN Some(TRUE)
    ELSE IF val = Some(NM_AUTOCONENCT_PORT_NO) THEN Some(FALSE)
    ELSE IF IsSome(val) THEN None
    ELSE Some(TRUE)

OptMap(o, then_true) == IF IsSome(o) THEN Some(Unwrap(o) = then_true) ELSE None

ParsedKeys == {"id", "autoconnect", "autoconnect-slaves", "lldp"}

\* TryFrom<DbusDictionary> for NmSettingConnection, reduced to four of its keys
NmSettingConnection_try_from(v) ==
    [id |-> FromMap(v, "id"),
     autoconnect |-> IF IsSome(FromMap(v, "autoconnect"))
                     THEN FromMap(v, "autoconnect") ELSE Some(TRUE),
     autoconnect_ports |->
         i32_to_autoconnect_ports(FromMap(v, "autoconnect-slaves")),
     lldp |-> OptMap(FromMap(v, "lldp"), 1),
     other |-> WithoutKeys(v, ParsedKeys)]

\* the keys to_value inserts before it extends the result with _other
OwnKeys(s) ==
    {"autoconnect", "autoconnect-slaves"}
    \cup (IF IsSome(s.id) THEN {"id"} ELSE {})
    \cup (IF IsSome(s.lldp) THEN {"lldp"} ELSE {})

OwnValue(s, key) ==
    CASE key = "id" -> Unwrap(s.id)
      [] key = "lldp" -> Unwrap(s.lldp)
      [] key = "autoconnect" -> (s.autoconnect # Some(FALSE))
      [] key = "autoconnect-slaves" ->
            IF s.autoconnect_ports = Some(TRUE) THEN NM_AUTOCONENCT_PORT_YES
            ELSE IF s.autoconnect_ports = Some(FALSE)
            THEN NM_AUTOCONENCT_PORT_NO
            ELSE NM_AUTOCONENCT_PORT_DEFAULT

\* NmSettingConnection::to_value: ret.extend(_other) overrides equal keys
NmSettingConnection_to_value(s) ==
    [k \in OwnKeys(s) \cup DOMAIN s.other |->
        IF k \in DOMAIN s.other THEN s.other[k] ELSE OwnValue(s, k)]

DictValue(key, id, autoconnect, ports, lldp, zone) ==
    CASE key = "id" -> Unwrap(id)
      [] key = "autoconnect" -> Unwrap(autoconnect)
      [] key = "autoconnect-slaves" -> Unwrap(ports)
      [] key = "lldp" -> Unwrap(lldp)
      [] key = "zone" -> Unwrap(zone)

DbusDictionary(id, autoconnect, ports, lldp, zone) ==
    [k \in (IF IsSome(id) THEN {"id"} ELSE {})
           \cup (IF IsSome(autoconnect) THEN {"autoconnect"} ELSE {})
           \cup (IF IsSome(ports) THEN {"autoconnect-slaves"} ELSE {})
           \cup (IF IsSome(lldp) THEN {"lldp"} ELSE {})
           \cup (IF IsSome(zone) THEN {"zone"} ELSE {}) |->
        DictValue(k, id, autoconnect, ports, lldp, zone)]

\* the dictionaries NetworkManager may hand over; 2 is no value that
\* autoconnect-slaves knows
DbusDictionaries ==
    {DbusDictionary(i, a, p, l, z) :
        i \in OptOf({"eth1"}), a \in OptOf(BOOLEAN),
        p \in OptOf({NM_AUTOCONENCT_PORT_DEFAULT, NM_AUTOCONENCT_PORT_NO,
                     NM_AUTOCONENCT_PORT_YES, 2}),
        l \in OptOf({0, 1}), z \in OptOf({"public"})}

InitNmConnection ==
    /\ pc = "dbus"
    /\ stack0 \in DbusDictionaries
    /\ stack = Unused
    /\ ret = Unused /\ trace = <<>>
    /\ is_desired = Unused /\ desired = Unused /\ current = Unused
    /\ for_apply = Unused /\ for_verify = Unused /\ dns = Unused
    /\ merged_state = Unused /\ nm_acs = Unused /\ nm_devs = Unused

\* the setting is parsed from the dictionary
ParseConnection ==
    /\ pc = "dbus"
    /\ stack' = NmSettingConnection_try_from(stack0)
    /\ pc' = "parsed"
    /\ UNCHANGED <<is_desired, stack0, trace, ret, desired, current,
                   for_apply, for_verify, dns, merged_state, nm_acs, nm_devs>>

\* the setting is written back
WriteConnection ==
    /\ pc = "parsed"
    /\ ret' = NmSettingConnection_to_value(stack)
    /\ pc' = "written"
    /\ UNCHANGED <<is_desired, stack0, stack, trace, desired, current,
                   for_apply, for_verify, dns, merged_state, nm_acs, nm_devs>>

NextNmConnection == ParseConnection \/ WriteConnection

SpecNmConnection == InitNmConnection /\ [][NextNmConnection]_vars

----------------------------------------------------------------------------
(* Properties of the connection setting, checked under SpecNmConnection *)

\* C30: parsing a connection setting and writing it back preserves
\* autoconnect-slaves for each of -1, 0 and 1, and a setting without the key
\* is written back as the default (-1), not as an explicit yes or no.
C30_AutoconnectPortsRoundTrip ==
    pc = "written" =>
        /\ ("autoconnect-slaves" \in DOMAIN stack0
              /\ stack0["autoconnect-slaves"] \in {-1, 0, 1})
              => ret["autoconnect-slaves"] = stack0["autoconnect-slaves"]
        /\ "autoconnect-slaves" \notin DOMAIN stack0
              => ret["autoconnect-slaves"] = NM_AUTOCONENCT_PORT_DEFAULT

====
